---- MODULE Spec2Model ----
(***************************************************************************)
(* The AppForge workflow state engine (src/appforge_mcp_server.py): the    *)
(* SQLite store of AppForgeDB and the operations of AppForgeStateManager,  *)
(* each operation one action that runs inside one get_connection()         *)
(* transaction (commit on normal exit, rollback when it raises).           *)
(***************************************************************************)
EXTENDS Integers, Sequences, FiniteSets, TLC

VARIABLES
    projects,        \* table projects: row id = index (AUTOINCREMENT, no delete)
    phases,          \* table phases
    agents,          \* table agents (run records)
    features,        \* table features
    approval_gates,  \* table approval_gates
    artifacts,       \* table artifacts
    audit_log,       \* table audit_log
    clock,           \* the wall clock read by datetime.now() / CURRENT_TIMESTAMP
    last,            \* the operation called last, its arguments and what it returned
    calls            \* per server process sharing the database file: the call it is in

store == <<projects, phases, agents, features, approval_gates, artifacts, audit_log>>
vars == <<projects, phases, agents, features, approval_gates, artifacts, audit_log, clock, last,
          calls>>

\* ------------------------------------------------------------------ bounds
MaxAudit == 2         \* audit entries (committed logging operations) of a run of Spec
MaxAgentAudit == 3    \* audit entries of a run of SpecAgents
MaxGateAudit == 3     \* audit entries of a run of SpecGates
MaxBacklogAudit == 3  \* audit entries of a run of SpecBacklog
MaxRetryAudit == 5    \* audit entries of a run of SpecRetry
MaxArtifacts == 1     \* rows of the artifacts table in a run of Spec
MaxSaved == 2         \* rows of the artifacts table in a run of SpecArtifacts
MaxClock == 1         \* ticks of the wall clock (seconds of CURRENT_TIMESTAMP)
MaxRetryCount == 4    \* cap of the retry_count counter
MaxFeatures == 3      \* rows of the features table

MaxProjects == 3      \* rows of the projects table in a run of SpecCreate
MaxResolveAudit == 3  \* audit entries of a run of SpecResolve
MaxAtomicAudit == 3   \* audit entries at which a run of SpecAtomic takes no new call
MaxSnapshotAudit == 3 \* audit entries of a run of SpecSnapshot
MaxProgressAudit == 4 \* audit entries of a run of SpecProgress
MaxRaceAudit == 5     \* audit entries at which a run of SpecRetryRace takes no new call

\* ------------------------------------------------------------------ values
NULL == "NULL"
NoTime == 0 - 1       \* a TIMESTAMP column holding NULL
NullInt == 0 - 1      \* an INTEGER column holding NULL

\* A table is the sequence of its rows; a row's id is its index (AUTOINCREMENT, and no
\* operation deletes). A SELECT ... WHERE is the set of the ids of the rows that match.

\* cursor.fetchone() of an unordered SELECT: SQLite scans by rowid.
MinOf(S) == CHOOSE x \in S : \A y \in S : x <= y
MaxOf(S) == CHOOSE x \in S : \A y \in S : x >= y

\* ------------------------------------------------------------------ dependency graph
\* AppForgeDB._initialize_dependency_graph: (agent_name, depends_on, phase_number).
\* depends_on is stored as JSON text and read back with json.loads: a list of names.
dependencies == <<
    [agent_name |-> "input-agent", depends_on |-> <<>>, phase_number |-> 0],
    [agent_name |-> "requirements-analyst", depends_on |-> <<"input-agent">>, phase_number |-> 1],
    [agent_name |-> "ui-ux-designer", depends_on |-> <<"input-agent">>, phase_number |-> 1],
    [agent_name |-> "database-architect",
     depends_on |-> <<"requirements-analyst", "ui-ux-designer">>, phase_number |-> 2],
    [agent_name |-> "api-designer",
     depends_on |-> <<"requirements-analyst", "ui-ux-designer">>, phase_number |-> 2],
    [agent_name |-> "integration-specialist",
     depends_on |-> <<"requirements-analyst", "ui-ux-designer">>, phase_number |-> 2],
    [agent_name |-> "backend-developer",
     depends_on |-> <<"database-architect", "api-designer", "integration-specialist">>,
     phase_number |-> 3],
    [agent_name |-> "frontend-developer",
     depends_on |-> <<"backend-developer", "ui-ux-designer">>, phase_number |-> 3],
    [agent_name |-> "backend-developer-feature",
     depends_on |-> <<"backend-developer">>, phase_number |-> 4],
    [agent_name |-> "frontend-developer-feature",
     depends_on |-> <<"backend-developer-feature">>, phase_number |-> 4],
    [agent_name |-> "qa-engineer-feature",
     depends_on |-> <<"backend-developer-feature", "frontend-developer-feature">>,
     phase_number |-> 4],
    [agent_name |-> "qa-engineer", depends_on |-> <<"qa-engineer-feature">>, phase_number |-> 5],
    [agent_name |-> "security-auditor", depends_on |-> <<"qa-engineer-feature">>, phase_number |-> 5],
    [agent_name |-> "devops-engineer", depends_on |-> <<"qa-engineer-feature">>, phase_number |-> 5],
    [agent_name |-> "devops-engineer-staging",
     depends_on |-> <<"qa-engineer", "security-auditor", "devops-engineer">>, phase_number |-> 6],
    [agent_name |-> "devops-engineer-production",
     depends_on |-> <<"devops-engineer-staging">>, phase_number |-> 6],
    [agent_name |-> "devops-engineer-appstore",
     depends_on |-> <<"devops-engineer-production">>, phase_number |-> 6] >>

GraphAgents == {dependencies[i].agent_name : i \in 1..Len(dependencies)}

\* DepRowId, were a name the graph does not have to resolve to the entry agent's row
DepRowId_OrFirst(agent_name) ==
    LET ids == {i \in 1..Len(dependencies) : dependencies[i].agent_name = agent_name}
    IN IF ids = {} THEN 1 ELSE MinOf(ids)

\* "SELECT ... FROM dependencies WHERE agent_name = ?" .fetchone(): the row id, 0 for None
\* (agent_name is UNIQUE).
DepRowId(agent_name) ==
    LET ids == {i \in 1..Len(dependencies) : dependencies[i].agent_name = agent_name}
    IN IF ids = {} THEN 0 ELSE MinOf(ids)

\* AppForgeStateManager.PHASE_NAMES
PHASE_NAMES == [n \in 0..6 |->
    CASE n = 0 -> "Input Gathering" [] n = 1 -> "Discovery" [] n = 2 -> "Technical Design"
      [] n = 3 -> "Foundation" [] n = 4 -> "Feature Development" [] n = 5 -> "Hardening"
      [] n = 6 -> "Deployment"]

\* ------------------------------------------------------------------ shared pieces
\* AppForgeDB.log_event: one INSERT INTO audit_log.
log_event(log, project_id, event_type, details, agent_name, phase_number) ==
    Append(log, [project_id |-> project_id, event_type |-> event_type,
                 agent_name |-> agent_name, phase_number |-> phase_number,
                 details |-> details, timestamp |-> clock])

\* TouchProject, were the completion of an agent to move the project on by a phase
TouchProject_Advances(prj, project_id) ==
    [i \in 1..Len(prj) |->
        IF i = project_id
        THEN [prj[i] EXCEPT !.updated_at = clock, !.current_phase = @ + 1]
        ELSE prj[i]]

\* "UPDATE projects SET updated_at = ? WHERE id = ?": no row, no change.
TouchProject(prj, project_id) ==
    [i \in 1..Len(prj) |-> IF i = project_id THEN [prj[i] EXCEPT !.updated_at = clock] ELSE prj[i]]

\* Rollback, were get_connection to commit what a failed operation had written
Rollback_KeepsStaged(before, staged) == staged

\* get_connection's "except Exception: conn.rollback()": the table is, after the call,
\* what it was before it, whatever the operation had written (staged) by the time it raised
Rollback(before, staged) == before

\* call_tool's "except Exception": the failure it reports after get_connection rolled back.
Raised(op, args, error) ==
    [op |-> op, args |-> args, result |-> [success |-> FALSE, error |-> error, tool |-> op]]

Returned(op, args, result) == [op |-> op, args |-> args, result |-> result]

\* the server processes that share one database file, each serving one caller
Processes == {"A", "B"}

\* a process that is in no call
Idle == [pc |-> "idle"]

Init ==
    /\ calls = [pr \in Processes |-> Idle]
    /\ projects = <<>>
    /\ phases = <<>>
    /\ agents = <<>>
    /\ features = <<>>
    /\ approval_gates = <<>>
    /\ artifacts = <<>>
    /\ audit_log = <<>>
    /\ clock = 0
    /\ last = [op |-> "init", args |-> <<>>, result |-> [success |-> TRUE]]

\* time passes between two calls
Tick ==
    /\ clock < MaxClock
    /\ clock' = clock + 1
    /\ UNCHANGED <<store, last, calls>>

\* ------------------------------------------------------------------ projects
\* NameTaken, were the projects table to have no UNIQUE constraint on name
NameTaken_Never(prj, name) == FALSE

\* the UNIQUE constraint of projects.name, as the INSERT of create_project meets it:
\* sqlite3.IntegrityError when a row of the table has the name
NameTaken(prj, name) == \E i \in 1..Len(prj) : prj[i].name = name

\* the row "INSERT INTO projects (name, ..., created_at, updated_at)" adds; current_phase
\* and status take the schema's defaults
ProjectRow(name) ==
    [name |-> name, current_phase |-> 0, status |-> "active",
     created_at |-> clock, updated_at |-> clock]

\* PhaseRows, were PHASE_NAMES to end at phase 5
PhaseRows_SixPhases(project_id) ==
    [n \in 1..6 |->
        [project_id |-> project_id, phase_number |-> n - 1,
         phase_name |-> PHASE_NAMES[n - 1],
         status |-> IF n - 1 = 0 THEN "in_progress" ELSE "pending",
         started_at |-> IF n - 1 = 0 THEN clock ELSE NoTime]]

\* the seven rows of "INSERT INTO phases" after the UPDATE that starts phase 0
PhaseRows(project_id) ==
    [n \in 1..7 |->
        [project_id |-> project_id, phase_number |-> n - 1,
         phase_name |-> PHASE_NAMES[n - 1],
         status |-> IF n - 1 = 0 THEN "in_progress" ELSE "pending",
         started_at |-> IF n - 1 = 0 THEN clock ELSE NoTime]]

\* AppForgeStateManager.create_project
create_project(name) ==
    LET args == <<name>>
        taken == NameTaken(projects, name)
        project_id == Len(projects) + 1
    IN  /\ IF taken
           THEN \* sqlite3.IntegrityError (name UNIQUE) caught inside the with-block
                /\ last' = Returned("create_project", args,
                                    [success |-> FALSE, error |-> "already exists"])
                /\ UNCHANGED store
           ELSE /\ projects' = Append(projects, ProjectRow(name))
                /\ phases' = phases \o PhaseRows(project_id)
                /\ audit_log' = log_event(audit_log, project_id, "project_created",
                                        [name |-> name], NULL, NullInt)
                /\ last' = Returned("create_project", args,
                                    [success |-> TRUE, project_id |-> project_id, name |-> name])
                /\ UNCHANGED <<agents, features, approval_gates, artifacts>>
        /\ UNCHANGED <<clock, calls>>

\* WriteLockHeld, were a write to take no lock
WriteLockHeld_Never == FALSE

\* Several server processes on one database file. Each call opens its own connection
\* (sqlite3.connect, default busy timeout): the connection's first INSERT takes the write
\* lock of the database and holds it until commit or rollback, the rows it has written
\* are not seen by other connections before the commit, and another connection's INSERT
\* waits for the lock and raises sqlite3.OperationalError when the wait runs out.
WriteLockHeld == \E pr \in Processes : calls[pr].pc = "writing"

\* the call of process pr has returned
CallReturned(pr, op, args, waited, result) ==
    [pc |-> "idle", op |-> op, args |-> args, waited |-> waited, result |-> result]

\* create_project in process pr from its INSERT INTO projects on, the write lock being
\* free: the INSERT fails on a name a committed row has, else the process has written
\* its rows (project, phases, audit entry) and holds the lock
create_project_insert(pr, name, waited) ==
    LET args == <<name>>
        project_id == Len(projects) + 1
    IN  IF NameTaken(projects, name)
        THEN /\ calls' = [calls EXCEPT ![pr] =
                     CallReturned(pr, "create_project", args, waited,
                                  [success |-> FALSE, error |-> "already exists"])]
             /\ last' = Returned("create_project", args,
                                 [success |-> FALSE, error |-> "already exists"])
             /\ UNCHANGED <<store, clock>>
        ELSE /\ calls' = [calls EXCEPT ![pr] =
                     [pc |-> "writing", op |-> "create_project", args |-> args,
                      waited |-> waited,
                      staged |-> [projects |-> Append(projects, ProjectRow(name)),
                                  phases |-> phases \o PhaseRows(project_id),
                                  audit_log |-> log_event(audit_log, project_id,
                                                   "project_created", [name |-> name],
                                                   NULL, NullInt)],
                      result |-> [success |-> TRUE, project_id |-> project_id, name |-> name]]]
             /\ UNCHANGED <<store, clock, last>>

\* process pr is called with create_project(name): its INSERT waits while another
\* process holds the write lock
create_project_call(pr, name) ==
    /\ calls[pr].pc = "idle"
    /\ IF WriteLockHeld
       THEN /\ calls' = [calls EXCEPT ![pr] =
                    [pc |-> "waiting", op |-> "create_project", args |-> <<name>>]]
            /\ UNCHANGED <<store, clock, last>>
       ELSE create_project_insert(pr, name, FALSE)

\* the lock process pr waited for has been released: its INSERT runs
create_project_resume(pr) ==
    /\ calls[pr].pc = "waiting"
    /\ calls[pr].op = "create_project"
    /\ ~WriteLockHeld
    /\ create_project_insert(pr, calls[pr].args[1], TRUE)

\* the wait of process pr has run out with the lock still held: "database is locked",
\* which is no IntegrityError and leaves create_project through get_connection's rollback
create_project_timeout(pr) ==
    /\ calls[pr].pc = "waiting"
    /\ calls[pr].op = "create_project"
    /\ WriteLockHeld
    /\ calls' = [calls EXCEPT ![pr] =
           CallReturned(pr, "create_project", calls[pr].args, TRUE,
                        Raised("create_project", calls[pr].args, "OperationalError").result)]
    /\ last' = Raised("create_project", calls[pr].args, "OperationalError")
    /\ UNCHANGED <<store, clock>>

\* get_connection's conn.commit() at the end of create_project in process pr
create_project_commit(pr) ==
    /\ calls[pr].pc = "writing"
    /\ calls[pr].op = "create_project"
    /\ projects' = calls[pr].staged.projects
    /\ phases' = calls[pr].staged.phases
    /\ audit_log' = calls[pr].staged.audit_log
    /\ calls' = [calls EXCEPT ![pr] =
           CallReturned(pr, "create_project", calls[pr].args, calls[pr].waited,
                        calls[pr].result)]
    /\ last' = Returned("create_project", calls[pr].args, calls[pr].result)
    /\ UNCHANGED <<agents, features, approval_gates, artifacts, clock>>

\* ------------------------------------------------------------------ agents
\* the agent names with a row "WHERE project_id = ? AND status = 'complete'"
CompletedNames(project_id) ==
    {agents[i].agent_name :
        i \in {rowid \in 1..Len(agents) : /\ agents[rowid].project_id = project_id
                                           /\ agents[rowid].status = "complete"}}

\* "SELECT current_phase FROM projects WHERE id = ?": 0 when there is no such project
CurrentPhaseOf(project_id) ==
    IF project_id \in 1..Len(projects) THEN projects[project_id].current_phase ELSE 0

\* WrongPhase, were an agent to start only after its phase
WrongPhase_Strict(deps_met, current_phase, required_phase) ==
    deps_met /\ current_phase <= required_phase

\* WrongPhase, were the comparison off by one phase
WrongPhase_OffByOne(deps_met, current_phase, required_phase) ==
    deps_met /\ current_phase + 1 < required_phase

\* "if can_start and current_phase < required_phase": the phase gating of can_start_agent
WrongPhase(deps_met, current_phase, required_phase) ==
    deps_met /\ current_phase < required_phase

\* f"Unknown agent: {agent_name}": the error text, the name it carries kept apart
UnknownAgentError(agent_name) == <<"Unknown agent: ", agent_name>>

\* AppForgeStateManager.can_start_agent: the dictionary it returns
can_start_agent_result(project_id, agent_name) ==
    LET d == DepRowId(agent_name) IN
    IF d = 0 THEN [success |-> FALSE, error |-> UnknownAgentError(agent_name)]
    ELSE
      LET deps == dependencies[d].depends_on
          required_phase == dependencies[d].phase_number
          completed_names == CompletedNames(project_id)
          missing == SelectSeq(deps, LAMBDA dep : dep \notin completed_names)
          deps_met == Len(missing) = 0
          current_phase == CurrentPhaseOf(project_id)
          wrong_phase == WrongPhase(deps_met, current_phase, required_phase)
      IN [success |-> TRUE,
          can_start |-> deps_met /\ ~wrong_phase,
          agent_name |-> agent_name,
          required_phase |-> required_phase,
          current_phase |-> current_phase,
          dependencies |-> deps,
          missing_dependencies |->
              IF wrong_phase THEN Append(missing, "phase-mismatch") ELSE missing]

can_start_agent(project_id, agent_name) ==
    /\ last' = Returned("can_start_agent", <<project_id, agent_name>>,
                        can_start_agent_result(project_id, agent_name))
    /\ UNCHANGED <<store, clock, calls>>

\* json.dumps of an opaque payload: the JSON text stored in a TEXT column
JsonDumps(payload) == <<"json", payload>>

\* the agents table's constraints: phase_number NOT NULL, CHECK(status IN (...))
AgentsRowOk(row) ==
    /\ row.phase_number # NullInt
    /\ row.status \in {"pending", "in_progress", "complete", "failed"}

\* CompletionRejected, were mark_agent_complete to refuse an agent that is not ready
CompletionRejected_NotReady(project_id, agent_name) ==
    \/ DepRowId(agent_name) = 0
    \/ ~can_start_agent_result(project_id, agent_name).can_start

\* "if not dep_row: return {success: False, ...}": the one early return of
\* mark_agent_complete; the project's state plays no part in it
CompletionRejected(project_id, agent_name) == DepRowId(agent_name) = 0

\* ExistingRecord, were the look-up to match a record of any status
ExistingRecord_AnyStatus(ag, project_id, agent_name) ==
    LET found == {rowid \in 1..Len(ag) : /\ ag[rowid].project_id = project_id
                                         /\ ag[rowid].agent_name = agent_name}
    IN  IF found = {} THEN 0 ELSE MinOf(found)

\* "SELECT id, status FROM agents WHERE project_id = ? AND agent_name = ? AND
\* status != 'complete'" and fetchone(): the id of the first such row, 0 for None
ExistingRecord(ag, project_id, agent_name) ==
    LET open == {rowid \in 1..Len(ag) : /\ ag[rowid].project_id = project_id
                                        /\ ag[rowid].agent_name = agent_name
                                        /\ ag[rowid].status # "complete"}
    IN  IF open = {} THEN 0 ELSE MinOf(open)

\* "if existing: UPDATE agents ... WHERE id = existing['id']  else: INSERT INTO agents":
\* the agents table after the write of mark_agent_complete
CompleteAgentRows(ag, existing, project_id, agent_name, phase_number, payload) ==
    IF existing # 0
    THEN [ag EXCEPT ![existing] =
             [@ EXCEPT !.status = "complete",
                       !.output_artifacts = JsonDumps(payload),
                       !.completed_at = clock]]
    ELSE Append(ag,
             [project_id |-> project_id, agent_name |-> agent_name,
              phase_number |-> phase_number, status |-> "complete",
              output_artifacts |-> JsonDumps(payload),
              error_message |-> NULL, completed_at |-> clock])

\* the audit entry of mark_agent_complete
CompletionLogged(log, project_id, agent_name, phase_number, payload) ==
    log_event(log, project_id, "agent_complete",
              [agent_name |-> agent_name, phase_number |-> phase_number,
               artifacts |-> payload], agent_name, phase_number)

\* AppForgeStateManager.mark_agent_complete
mark_agent_complete(project_id, agent_name, payload) ==
    LET args == <<project_id, agent_name, payload>>
        d == DepRowId(agent_name)
    IN  /\ IF CompletionRejected(project_id, agent_name)
           THEN /\ last' = Returned("mark_agent_complete", args,
                                    [success |-> FALSE, error |-> UnknownAgentError(agent_name)])
                /\ UNCHANGED store
           ELSE LET phase_number == dependencies[d].phase_number
                    existing == ExistingRecord(agents, project_id, agent_name)
                IN  /\ agents' = CompleteAgentRows(agents, existing, project_id, agent_name,
                                                   phase_number, payload)
                    /\ projects' = TouchProject(projects, project_id)
                    /\ audit_log' = CompletionLogged(audit_log, project_id, agent_name,
                                                     phase_number, payload)
                    /\ last' = Returned("mark_agent_complete", args,
                                        [success |-> TRUE, phase |-> phase_number])
                    /\ UNCHANGED <<phases, features, approval_gates, artifacts>>
        /\ UNCHANGED <<clock, calls>>

\* mark_agent_complete in process pr, as the steps other processes can come between: its
\* SELECTs run outside any transaction, its first write takes the write lock, and
\* get_connection's commit releases it.

\* process pr is called with mark_agent_complete: the early return on an unknown agent,
\* else the look-up of an existing record, whose answer the process keeps
mark_agent_complete_call(pr, project_id, agent_name, payload) ==
    LET args == <<project_id, agent_name, payload>> IN
    /\ calls[pr].pc = "idle"
    /\ IF CompletionRejected(project_id, agent_name)
       THEN /\ calls' = [calls EXCEPT ![pr] =
                    CallReturned(pr, "mark_agent_complete", args, FALSE,
                                 [success |-> FALSE, error |-> UnknownAgentError(agent_name)])]
            /\ last' = Returned("mark_agent_complete", args,
                                [success |-> FALSE, error |-> UnknownAgentError(agent_name)])
       ELSE /\ calls' = [calls EXCEPT ![pr] =
                    [pc |-> "looked_up", op |-> "mark_agent_complete", args |-> args,
                     existing |-> ExistingRecord(agents, project_id, agent_name)]]
            /\ UNCHANGED last
    /\ UNCHANGED <<store, clock>>

\* the UPDATE or INSERT of process pr, the write lock being free, with the UPDATE of the
\* project and the audit entry that follow it: written on what the store holds now,
\* by the answer the look-up gave
mark_agent_complete_update(pr, waited) ==
    LET project_id == calls[pr].args[1]
        agent_name == calls[pr].args[2]
        payload == calls[pr].args[3]
        phase_number == dependencies[DepRowId(agent_name)].phase_number
    IN  /\ calls' = [calls EXCEPT ![pr] =
               [pc |-> "writing", op |-> "mark_agent_complete", args |-> calls[pr].args,
                waited |-> waited,
                staged |-> [agents |-> CompleteAgentRows(agents, calls[pr].existing,
                                           project_id, agent_name, phase_number, payload),
                            projects |-> TouchProject(projects, project_id),
                            audit_log |-> CompletionLogged(audit_log, project_id,
                                              agent_name, phase_number, payload)],
                result |-> [success |-> TRUE, phase |-> phase_number]]]
        /\ UNCHANGED <<store, clock, last>>

\* process pr goes on from its look-up to its write, which waits while another process
\* holds the write lock
mark_agent_complete_write(pr) ==
    /\ calls[pr].pc = "looked_up"
    /\ IF WriteLockHeld
       THEN /\ calls' = [calls EXCEPT ![pr] = [@ EXCEPT !.pc = "waiting"]]
            /\ UNCHANGED <<store, clock, last>>
       ELSE mark_agent_complete_update(pr, FALSE)

\* the lock process pr waited for has been released: its write runs
mark_agent_complete_resume(pr) ==
    /\ calls[pr].pc = "waiting"
    /\ calls[pr].op = "mark_agent_complete"
    /\ ~WriteLockHeld
    /\ mark_agent_complete_update(pr, TRUE)

\* the wait of process pr has run out with the lock still held: "database is locked"
\* leaves mark_agent_complete through get_connection's rollback
mark_agent_complete_timeout(pr) ==
    /\ calls[pr].pc = "waiting"
    /\ calls[pr].op = "mark_agent_complete"
    /\ WriteLockHeld
    /\ calls' = [calls EXCEPT ![pr] =
           CallReturned(pr, "mark_agent_complete", calls[pr].args, TRUE,
                        Raised("mark_agent_complete", calls[pr].args, "OperationalError").result)]
    /\ last' = Raised("mark_agent_complete", calls[pr].args, "OperationalError")
    /\ UNCHANGED <<store, clock>>

\* get_connection's conn.commit() at the end of mark_agent_complete in process pr
mark_agent_complete_commit(pr) ==
    /\ calls[pr].pc = "writing"
    /\ calls[pr].op = "mark_agent_complete"
    /\ agents' = calls[pr].staged.agents
    /\ projects' = calls[pr].staged.projects
    /\ audit_log' = calls[pr].staged.audit_log
    /\ calls' = [calls EXCEPT ![pr] =
           CallReturned(pr, "mark_agent_complete", calls[pr].args, calls[pr].waited,
                        calls[pr].result)]
    /\ last' = Returned("mark_agent_complete", calls[pr].args, calls[pr].result)
    /\ UNCHANGED <<phases, features, approval_gates, artifacts, clock>>

\* AppForgeStateManager.mark_agent_failed: its INSERT names no phase_number
mark_agent_failed(project_id, agent_name, error) ==
    LET args == <<project_id, agent_name, error>>
        row == [project_id |-> project_id, agent_name |-> agent_name,
                phase_number |-> NullInt, status |-> "failed",
                output_artifacts |-> NULL, error_message |-> error, completed_at |-> clock]
    IN  /\ IF AgentsRowOk(row)
           THEN /\ agents' = Append(agents, row)
                /\ audit_log' = log_event(audit_log, project_id, "agent_failed",
                                        [agent_name |-> agent_name, error |-> error],
                                        agent_name, NullInt)
                /\ last' = Returned("mark_agent_failed", args, [success |-> TRUE])
                /\ UNCHANGED <<projects, phases, features, approval_gates, artifacts>>
           ELSE \* sqlite3.IntegrityError: NOT NULL constraint failed: agents.phase_number
                /\ last' = Raised("mark_agent_failed", args, "IntegrityError")
                /\ UNCHANGED store
        /\ UNCHANGED <<clock, calls>>

\* byte order of the agent names, as "ORDER BY agent_name" compares them
NameOrder == <<
    "api-designer", "backend-developer", "backend-developer-feature", "database-architect",
    "devops-engineer", "devops-engineer-appstore", "devops-engineer-production",
    "devops-engineer-staging", "frontend-developer", "frontend-developer-feature",
    "input-agent", "integration-specialist", "qa-engineer", "qa-engineer-feature",
    "requirements-analyst", "security-auditor", "ui-ux-designer" >>

NameRank(name) == MinOf({i \in 1..Len(NameOrder) : NameOrder[i] = name})

\* DepBefore, were the agents ordered by name alone
DepBefore_NameOnly(d1, d2) ==
    NameRank(dependencies[d1].agent_name) < NameRank(dependencies[d2].agent_name)

\* d1 comes before d2 under "ORDER BY phase_number, agent_name"
DepBefore(d1, d2) ==
    \/ dependencies[d1].phase_number < dependencies[d2].phase_number
    \/ /\ dependencies[d1].phase_number = dependencies[d2].phase_number
       /\ NameRank(dependencies[d1].agent_name) < NameRank(dependencies[d2].agent_name)

RECURSIVE OrderedDeps(_)
\* "SELECT agent_name FROM dependencies ORDER BY phase_number, agent_name" over the ids S
OrderedDeps(S) ==
    IF S = {} THEN <<>>
    ELSE LET first == CHOOSE d \in S : \A e \in S \ {d} : DepBefore(d, e)
         IN <<dependencies[first].agent_name>> \o OrderedDeps(S \ {first})

all_agents == OrderedDeps(1..Len(dependencies))

\* the first n elements of a list: blocked_agents[:5]
Slice(s, n) == SubSeq(s, 1, IF Len(s) < n THEN Len(s) ELSE n)

\* AppForgeStateManager.get_next_agents: the dictionary it returns
get_next_agents_result(project_id) ==
    LET checks == [a \in GraphAgents |-> can_start_agent_result(project_id, a)]
        check(a) == checks[a]
        completed(a) == {rowid \in 1..Len(agents) : /\ agents[rowid].project_id = project_id
                                                    /\ agents[rowid].agent_name = a
                                                    /\ agents[rowid].status = "complete"} # {}
        ready == SelectSeq(all_agents, LAMBDA a : check(a).can_start /\ ~completed(a))
        blocked == SelectSeq(all_agents,
                       LAMBDA a : ~check(a).can_start /\ Len(check(a).missing_dependencies) > 0)
    IN [success |-> TRUE,
        ready_agents |-> [i \in 1..Len(ready) |->
                             [name |-> ready[i], phase |-> check(ready[i]).required_phase]],
        blocked_agents |-> Slice([i \in 1..Len(blocked) |->
                             [name |-> blocked[i], phase |-> check(blocked[i]).required_phase,
                              missing |-> check(blocked[i]).missing_dependencies]], 5)]

get_next_agents(project_id) ==
    /\ last' = Returned("get_next_agents", <<project_id>>, get_next_agents_result(project_id))
    /\ UNCHANGED <<store, clock, calls>>

\* get_next_agents in process pr, as the steps other processes can come between: the
\* loop over all_agents runs in no transaction, every can_start_agent opens a connection
\* of its own, and the query for a complete record is one more read of the store.

\* process pr is called with get_next_agents: all_agents is read, the lists are empty
get_next_agents_call(pr, project_id) ==
    /\ calls[pr].pc = "idle"
    /\ calls' = [calls EXCEPT ![pr] =
           [pc |-> "checking", op |-> "get_next_agents", args |-> <<project_id>>,
            index |-> 1, ready_agents |-> <<>>, blocked_agents |-> <<>>]]
    /\ UNCHANGED <<store, clock, last>>

\* "check = self.can_start_agent(project_id, agent_name)" for the next agent of the loop,
\* on what the store holds now; an agent that cannot start joins blocked_agents when it
\* has missing dependencies
get_next_agents_check(pr) ==
    /\ calls[pr].pc = "checking"
    /\ calls[pr].index <= Len(all_agents)
    /\ LET agent_name == all_agents[calls[pr].index]
           check == can_start_agent_result(calls[pr].args[1], agent_name)
       IN  calls' = [calls EXCEPT ![pr] =
               IF check.can_start
               THEN [pc |-> "checked", op |-> @.op, args |-> @.args, index |-> @.index,
                     ready_agents |-> @.ready_agents, blocked_agents |-> @.blocked_agents,
                     required_phase |-> check.required_phase]
               ELSE IF Len(check.missing_dependencies) > 0
               THEN [@ EXCEPT !.index = @ + 1,
                              !.blocked_agents =
                                  Append(@, [name |-> agent_name,
                                             phase |-> check.required_phase,
                                             missing |-> check.missing_dependencies])]
               ELSE [@ EXCEPT !.index = @ + 1]]
    /\ UNCHANGED <<store, clock, last>>

\* "completed = conn.execute(SELECT id FROM agents ... status = 'complete')" for an agent
\* whose check passed, on what the store holds now: the agent joins ready_agents when it
\* has no complete record
get_next_agents_completed(pr) ==
    /\ calls[pr].pc = "checked"
    /\ LET agent_name == all_agents[calls[pr].index]
           completed == \E rowid \in 1..Len(agents) :
                           /\ agents[rowid].project_id = calls[pr].args[1]
                           /\ agents[rowid].agent_name = agent_name
                           /\ agents[rowid].status = "complete"
       IN  calls' = [calls EXCEPT ![pr] =
               [pc |-> "checking", op |-> @.op, args |-> @.args, index |-> @.index + 1,
                ready_agents |-> IF completed THEN @.ready_agents
                                 ELSE Append(@.ready_agents,
                                             [name |-> agent_name,
                                              phase |-> @.required_phase]),
                blocked_agents |-> @.blocked_agents]]
    /\ UNCHANGED <<store, clock, last>>

\* the loop of process pr is over: get_next_agents returns its two lists
get_next_agents_return(pr) ==
    /\ calls[pr].pc = "checking"
    /\ calls[pr].index > Len(all_agents)
    /\ LET result == [success |-> TRUE,
                      ready_agents |-> calls[pr].ready_agents,
                      blocked_agents |-> Slice(calls[pr].blocked_agents, 5)]
       IN  /\ calls' = [calls EXCEPT ![pr] =
                  CallReturned(pr, "get_next_agents", calls[pr].args, FALSE, result)]
           /\ last' = Returned("get_next_agents", calls[pr].args, result)
    /\ UNCHANGED <<store, clock>>

\* ------------------------------------------------------------------ approval gates
\* A gate name is held as the list of its whitespace-separated tokens, which is what
\* gate_name.split() returns; the SQL comparisons of gate_name compare the whole name.

\* Python's  "Gate" in gate_name : some token has the substring "Gate"
TokenHasGate(token) == token \in {"Gate", "Gateway"}
HasGate(gate_name) == \E i \in 1..Len(gate_name) : TokenHasGate(gate_name[i])

\* Python's int(token): the number a decimal literal denotes; other text raises ValueError
PyInt(token) ==
    LET n(v) == [raised |-> FALSE, none |-> FALSE, value |-> v] IN
    CASE token = "0" -> n(0) [] token = "1" -> n(1) [] token = "2" -> n(2) [] token = "3" -> n(3)
      [] token = "4" -> n(4) [] token = "5" -> n(5) [] token = "6" -> n(6) [] token = "7" -> n(7)
      [] token = "8" -> n(8) [] token = "9" -> n(9) [] token = "-1" -> n(0 - 1)
      [] OTHER -> [raised |-> TRUE, none |-> FALSE, value |-> 0]

\* the approval_gates table's CHECK(gate_type IN (...))
GateRowOk(row) == row.gate_type \in {"must_approve", "optional_review", "auto_proceed"}

\* AppForgeStateManager.request_approval
request_approval(project_id, gate_name, gate_type, names) ==
    LET args == <<project_id, gate_name, gate_type, names>>
        row == [project_id |-> project_id, gate_name |-> gate_name, gate_type |-> gate_type,
                status |-> "pending", artifacts |-> JsonDumps(names), user_feedback |-> NULL,
                requested_at |-> clock, resolved_at |-> NoTime]
    IN  /\ IF GateRowOk(row)
           THEN /\ approval_gates' = Append(approval_gates, row)
                /\ audit_log' = log_event(audit_log, project_id, "approval_requested",
                                        [gate_name |-> gate_name, gate_type |-> gate_type,
                                         artifacts |-> names], NULL, NullInt)
                /\ last' = Returned("request_approval", args,
                               [success |-> TRUE, gate_id |-> Len(approval_gates) + 1,
                                gate_name |-> gate_name, gate_type |-> gate_type])
                /\ UNCHANGED <<projects, phases, agents, features, artifacts>>
           ELSE \* sqlite3.IntegrityError: CHECK constraint failed
                /\ last' = Raised("request_approval", args, "IntegrityError")
                /\ UNCHANGED store
        /\ UNCHANGED <<clock, calls>>

\* ResolveGates, were the UPDATE to leave out "AND status = 'pending'"
ResolveGates_AnyStatus(gates, project_id, gate_name, status, feedback) ==
    [i \in 1..Len(gates) |->
        IF gates[i].project_id = project_id /\ gates[i].gate_name = gate_name
        THEN [gates[i] EXCEPT !.status = status, !.user_feedback = feedback,
                              !.resolved_at = clock]
        ELSE gates[i]]

\* "UPDATE approval_gates SET status = ?, user_feedback = ?, resolved_at = ?
\*  WHERE project_id = ? AND gate_name = ? AND status = 'pending'"
ResolveGates(gates, project_id, gate_name, status, feedback) ==
    [i \in 1..Len(gates) |->
        IF /\ gates[i].project_id = project_id
           /\ gates[i].gate_name = gate_name
           /\ gates[i].status = "pending"
        THEN [gates[i] EXCEPT !.status = status, !.user_feedback = feedback,
                              !.resolved_at = clock]
        ELSE gates[i]]

\* gate_number of record_approval: int(gate_name.split()[1]) if len(...) > 1 else None
GateNumber(gate_name) ==
    IF Len(gate_name) > 1 THEN PyInt(gate_name[2])
    ELSE [raised |-> FALSE, none |-> TRUE, value |-> 0]

\* IsPhaseGate, were the decision not looked at
IsPhaseGate_AnyDecision(approved, gate_name) == HasGate(gate_name)

\* "if approved and "Gate" in gate_name": whether record_approval takes the phase branch
IsPhaseGate(approved, gate_name) == approved /\ HasGate(gate_name)

\* "if gate_number:" a number other than 0 (None and 0 are falsy)
Truthy(gate_number) == ~gate_number.none /\ gate_number.value # 0

\* AdvanceProject, were the UPDATE to leave current_phase alone
AdvanceProject_KeepsPhase(prj, project_id, next_phase) ==
    [i \in 1..Len(prj) |-> IF i = project_id THEN [prj[i] EXCEPT !.updated_at = clock] ELSE prj[i]]

\* "UPDATE projects SET current_phase = ?, updated_at = ? WHERE id = ?"
AdvanceProject(prj, project_id, next_phase) ==
    [i \in 1..Len(prj) |->
        IF i = project_id
        THEN [prj[i] EXCEPT !.current_phase = next_phase, !.updated_at = clock]
        ELSE prj[i]]

\* "UPDATE phases SET status = 'in_progress', started_at = ?
\*  WHERE project_id = ? AND phase_number = ?"
StartPhase(phs, project_id, next_phase) ==
    [i \in 1..Len(phs) |->
        IF phs[i].project_id = project_id /\ phs[i].phase_number = next_phase
        THEN [phs[i] EXCEPT !.status = "in_progress", !.started_at = clock]
        ELSE phs[i]]

\* AppForgeStateManager.record_approval
record_approval(project_id, gate_name, approved, feedback) ==
    LET args == <<project_id, gate_name, approved, feedback>>
        status == IF approved THEN "approved" ELSE "rejected"
        phase_gate == IsPhaseGate(approved, gate_name)
        gate_number == GateNumber(gate_name)
    IN  /\ IF phase_gate /\ gate_number.raised
           THEN \* int() raised: get_connection rolls the gate UPDATE back
                /\ approval_gates' = Rollback(approval_gates,
                       ResolveGates(approval_gates, project_id, gate_name, status, feedback))
                /\ last' = Raised("record_approval", args, "ValueError")
                /\ UNCHANGED <<projects, phases, agents, features, artifacts, audit_log>>
           ELSE /\ approval_gates' =
                       ResolveGates(approval_gates, project_id, gate_name, status, feedback)
                /\ IF phase_gate /\ Truthy(gate_number)
                   THEN /\ projects' = AdvanceProject(projects, project_id, gate_number.value)
                        /\ phases' = StartPhase(phases, project_id, gate_number.value)
                   ELSE UNCHANGED <<projects, phases>>
                /\ audit_log' = log_event(audit_log, project_id, "approval_recorded",
                                        [gate_name |-> gate_name, approved |-> approved,
                                         feedback |-> feedback], NULL, NullInt)
                /\ last' = Returned("record_approval", args,
                                    [success |-> TRUE, approved |-> approved])
                /\ UNCHANGED <<agents, features, artifacts>>
        /\ UNCHANGED <<clock, calls>>

\* ------------------------------------------------------------------ features
\* the features table's CHECK(priority IN ('HIGH', 'MEDIUM', 'LOW'))
FeatureRowOk(row) == row.priority \in {"HIGH", "MEDIUM", "LOW"}

\* the row add_features inserts for one item: feature.get("priority", "MEDIUM"); the
\* columns the INSERT does not name take the schema's defaults (retry_count 0,
\* max_retries 3, status 'pending'). The item's own max_retries is not read.
DefaultMaxRetries == 3
FeatureRow(project_id, feature) ==
    [project_id |-> project_id, feature_name |-> feature.name,
     priority |-> IF feature.priority = NULL THEN "MEDIUM" ELSE feature.priority,
     status |-> "pending", retry_count |-> 0, max_retries |-> DefaultMaxRetries,
     created_at |-> clock, completed_at |-> NoTime]

\* AppForgeStateManager.add_features
add_features(project_id, items) ==
    LET args == <<project_id, items>>
        rows == [i \in 1..Len(items) |-> FeatureRow(project_id, items[i])]
        \* the rows inserted before the first one the CHECK refuses
        bad == MinOf({i \in 1..Len(rows) : ~FeatureRowOk(rows[i])})
    IN  /\ IF \A i \in 1..Len(rows) : FeatureRowOk(rows[i])
           THEN /\ features' = features \o rows
                /\ audit_log' = log_event(audit_log, project_id, "features_added",
                                        [count |-> Len(items), features |-> items],
                                        NULL, NullInt)
                /\ last' = Returned("add_features", args,
                                    [success |-> TRUE, added |-> Len(items)])
                /\ UNCHANGED <<projects, phases, agents, approval_gates, artifacts>>
           ELSE \* sqlite3.IntegrityError at some item: the rows before it are rolled back
                /\ features' = Rollback(features, features \o SubSeq(rows, 1, bad - 1))
                /\ last' = Raised("add_features", args, "IntegrityError")
                /\ UNCHANGED <<projects, phases, agents, approval_gates, artifacts, audit_log>>
        /\ UNCHANGED <<clock, calls>>

\* "CASE priority WHEN 'HIGH' THEN 1 WHEN 'MEDIUM' THEN 2 WHEN 'LOW' THEN 3 END"
PriorityRank(priority) ==
    CASE priority = "HIGH" -> 1 [] priority = "MEDIUM" -> 2 [] priority = "LOW" -> 3

\* FeatureBefore, were the backlog ordered by insertion id alone
FeatureBefore_IdOnly(i, j) == i < j

\* "ORDER BY CASE priority ... END, id ASC": row i sorts before row j
FeatureBefore(i, j) ==
    \/ PriorityRank(features[i].priority) < PriorityRank(features[j].priority)
    \/ /\ PriorityRank(features[i].priority) = PriorityRank(features[j].priority)
       /\ i < j

\* the SELECT of get_next_feature: the id of the row "LIMIT 1" keeps, 0 for None
NextFeatureId(project_id) ==
    LET pending == {rowid \in 1..Len(features) : /\ features[rowid].project_id = project_id
                                                 /\ features[rowid].status = "pending"}
    IN IF pending = {} THEN 0
       ELSE CHOOSE i \in pending : \A j \in pending \ {i} : FeatureBefore(i, j)

\* AppForgeStateManager.get_next_feature: the dictionary it returns
get_next_feature_result(project_id) ==
    LET id == NextFeatureId(project_id) IN
    IF id = 0 THEN [success |-> TRUE, has_next |-> FALSE]
    ELSE [success |-> TRUE, has_next |-> TRUE, feature |-> [id |-> id, row |-> features[id]]]

get_next_feature(project_id) ==
    /\ last' = Returned("get_next_feature", <<project_id>>, get_next_feature_result(project_id))
    /\ UNCHANGED <<store, clock, calls>>

\* CompleteFeature, were the UPDATE to stamp completed_at and leave the status alone
CompleteFeature_LeavesPending(feats, feature_id) ==
    [i \in 1..Len(feats) |->
        IF i = feature_id THEN [feats[i] EXCEPT !.completed_at = clock] ELSE feats[i]]

\* "UPDATE features SET status = 'complete', completed_at = ? WHERE id = ?"
CompleteFeature(feats, feature_id) ==
    [i \in 1..Len(feats) |->
        IF i = feature_id
        THEN [feats[i] EXCEPT !.status = "complete", !.completed_at = clock]
        ELSE feats[i]]

\* AppForgeStateManager.mark_feature_complete: the UPDATE is "WHERE id = ?" alone
mark_feature_complete(project_id, feature_id) ==
    LET found == feature_id \in 1..Len(features) IN
    /\ features' = CompleteFeature(features, feature_id)
    /\ audit_log' = log_event(audit_log, project_id, "feature_complete",
                            [feature_id |-> feature_id,
                             feature_name |-> IF found THEN features[feature_id].feature_name
                                              ELSE "Unknown"], NULL, NullInt)
    /\ last' = Returned("mark_feature_complete", <<project_id, feature_id>>,
                        [success |-> TRUE,
                         feature_name |-> IF found THEN features[feature_id].feature_name
                                          ELSE "Unknown"])
    /\ UNCHANGED <<projects, phases, agents, approval_gates, artifacts, clock, calls>>

\* BumpRetry, were the UPDATE to have no WHERE clause
BumpRetry_All(feats, feature_id) ==
    [i \in 1..Len(feats) |-> [feats[i] EXCEPT !.retry_count = @ + 1]]

\* "UPDATE features SET retry_count = retry_count + 1 WHERE id = ?"
BumpRetry(feats, feature_id) ==
    [i \in 1..Len(feats) |->
        IF i = feature_id THEN [feats[i] EXCEPT !.retry_count = @ + 1] ELSE feats[i]]

\* RetriesLeft, were it computed from the count before the increment
RetriesLeft_Stale(feature) == feature.max_retries - (feature.retry_count - 1)

\* retries_left of record_feature_retry, from the row read back after the UPDATE
RetriesLeft(feature) == feature.max_retries - feature.retry_count

\* AppForgeStateManager.record_feature_retry
record_feature_retry(project_id, feature_id) ==
    LET args == <<project_id, feature_id>>
        updated == BumpRetry(features, feature_id)
    IN  /\ IF feature_id \in 1..Len(features)
           THEN LET feature == updated[feature_id]
                    retries_left == RetriesLeft(feature)
                IN  /\ features' = updated
                    /\ audit_log' = log_event(audit_log, project_id, "feature_retry",
                                        [feature_id |-> feature_id,
                                         feature_name |-> feature.feature_name,
                                         retry_count |-> feature.retry_count,
                                         retries_left |-> retries_left], NULL, NullInt)
                    /\ last' = Returned("record_feature_retry", args,
                                   [success |-> TRUE, retry_count |-> feature.retry_count,
                                    retries_left |-> retries_left,
                                    max_retries_reached |-> retries_left <= 0])
                    /\ UNCHANGED <<projects, phases, agents, approval_gates, artifacts>>
           ELSE /\ last' = Returned("record_feature_retry", args,
                                    [success |-> FALSE, error |-> "Feature not found"])
                /\ UNCHANGED store
        /\ UNCHANGED <<clock, calls>>

\* record_feature_retry in process pr: its UPDATE is its first statement and takes the
\* write lock, so the SELECT that follows reads the row the process itself has written.

\* the UPDATE of process pr, the write lock being free, with the SELECT, the audit entry
\* and the result that follow it; a feature id without a row updates nothing
record_feature_retry_update(pr, project_id, feature_id, waited) ==
    LET args == <<project_id, feature_id>>
        updated == BumpRetry(features, feature_id)
    IN  /\ calls' = [calls EXCEPT ![pr] =
               IF feature_id \in 1..Len(features)
               THEN LET feature == updated[feature_id]
                        retries_left == RetriesLeft(feature)
                    IN  [pc |-> "writing", op |-> "record_feature_retry", args |-> args,
                         waited |-> waited,
                         staged |-> [features |-> updated,
                                     audit_log |-> log_event(audit_log, project_id,
                                         "feature_retry",
                                         [feature_id |-> feature_id,
                                          feature_name |-> feature.feature_name,
                                          retry_count |-> feature.retry_count,
                                          retries_left |-> retries_left], NULL, NullInt)],
                         result |-> [success |-> TRUE, retry_count |-> feature.retry_count,
                                     retries_left |-> retries_left,
                                     max_retries_reached |-> retries_left <= 0]]
               ELSE [pc |-> "writing", op |-> "record_feature_retry", args |-> args,
                     waited |-> waited,
                     staged |-> [features |-> features, audit_log |-> audit_log],
                     result |-> [success |-> FALSE, error |-> "Feature not found"]]]
        /\ UNCHANGED <<store, clock, last>>

\* process pr is called with record_feature_retry: its UPDATE waits while another process
\* holds the write lock
record_feature_retry_call(pr, project_id, feature_id) ==
    /\ calls[pr].pc = "idle"
    /\ IF WriteLockHeld
       THEN /\ calls' = [calls EXCEPT ![pr] =
                    [pc |-> "waiting", op |-> "record_feature_retry",
                     args |-> <<project_id, feature_id>>]]
            /\ UNCHANGED <<store, clock, last>>
       ELSE record_feature_retry_update(pr, project_id, feature_id, FALSE)

\* the lock process pr waited for has been released: its UPDATE runs
record_feature_retry_resume(pr) ==
    /\ calls[pr].pc = "waiting"
    /\ calls[pr].op = "record_feature_retry"
    /\ ~WriteLockHeld
    /\ record_feature_retry_update(pr, calls[pr].args[1], calls[pr].args[2], TRUE)

\* the wait of process pr has run out with the lock still held: "database is locked"
\* leaves record_feature_retry through get_connection's rollback
record_feature_retry_timeout(pr) ==
    /\ calls[pr].pc = "waiting"
    /\ calls[pr].op = "record_feature_retry"
    /\ WriteLockHeld
    /\ calls' = [calls EXCEPT ![pr] =
           CallReturned(pr, "record_feature_retry", calls[pr].args, TRUE,
                        Raised("record_feature_retry", calls[pr].args, "OperationalError").result)]
    /\ last' = Raised("record_feature_retry", calls[pr].args, "OperationalError")
    /\ UNCHANGED <<store, clock>>

\* get_connection's conn.commit() at the end of record_feature_retry in process pr
record_feature_retry_commit(pr) ==
    /\ calls[pr].pc = "writing"
    /\ calls[pr].op = "record_feature_retry"
    /\ features' = calls[pr].staged.features
    /\ audit_log' = calls[pr].staged.audit_log
    /\ calls' = [calls EXCEPT ![pr] =
           CallReturned(pr, "record_feature_retry", calls[pr].args, calls[pr].waited,
                        calls[pr].result)]
    /\ last' = Returned("record_feature_retry", calls[pr].args, calls[pr].result)
    /\ UNCHANGED <<projects, phases, agents, approval_gates, artifacts, clock>>

\* ------------------------------------------------------------------ artifacts
\* "json.dumps(metadata) if metadata else None": an empty dict is falsy
MetadataColumn(metadata) ==
    IF metadata = NULL \/ metadata = "{}" THEN NULL ELSE JsonDumps(metadata)

\* AppForgeStateManager.save_artifact: created_at is the column default CURRENT_TIMESTAMP;
\* the method writes no audit entry
save_artifact(project_id, agent_name, artifact_type, artifact_name, content, metadata) ==
    /\ artifacts' = Append(artifacts,
           [project_id |-> project_id, agent_name |-> agent_name,
            artifact_type |-> artifact_type, artifact_name |-> artifact_name,
            content |-> content, metadata |-> MetadataColumn(metadata), created_at |-> clock])
    /\ last' = Returned("save_artifact",
                        <<project_id, agent_name, artifact_type, artifact_name, content, metadata>>,
                        [success |-> TRUE])
    /\ UNCHANGED <<projects, phases, agents, features, approval_gates, audit_log, clock, calls>>

\* "ORDER BY created_at DESC LIMIT 1": among rows of one created_at the sorter keeps the
\* scan (rowid) order, so the row kept is the oldest of the newest second
NewestArtifactId(ids) ==
    LET newest == MaxOf({artifacts[i].created_at : i \in ids})
    IN MinOf({i \in ids : artifacts[i].created_at = newest})

\* AppForgeStateManager.get_artifact: the dictionary it returns
get_artifact_result(project_id, artifact_name) ==
    LET ids == {rowid \in 1..Len(artifacts) : /\ artifacts[rowid].project_id = project_id
                                              /\ artifacts[rowid].artifact_name = artifact_name}
    IN IF ids = {} THEN [success |-> FALSE, error |-> "Artifact not found"]
       ELSE [success |-> TRUE,
             artifact |-> [id |-> NewestArtifactId(ids), row |-> artifacts[NewestArtifactId(ids)]]]

get_artifact(project_id, artifact_name) ==
    /\ last' = Returned("get_artifact", <<project_id, artifact_name>>,
                        get_artifact_result(project_id, artifact_name))
    /\ UNCHANGED <<store, clock, calls>>

\* AppForgeStateManager.list_artifacts: the ids of the rows listed and their count
list_artifacts(project_id, filter_type) ==
    LET ids == {rowid \in 1..Len(artifacts) : /\ artifacts[rowid].project_id = project_id
                                              /\ (filter_type = NULL \/ artifacts[rowid].artifact_type = filter_type)}
    IN  /\ last' = Returned("list_artifacts", <<project_id, filter_type>>,
                            [success |-> TRUE, artifacts |-> ids, count |-> Cardinality(ids)])
        /\ UNCHANGED <<store, clock, calls>>

\* ------------------------------------------------------------------ read operations
\* AppForgeStateManager.get_project_state: the project row and the ids of the rows returned
get_project_state(project_id) ==
    /\ last' = Returned("get_project_state", <<project_id>>,
          IF project_id \notin 1..Len(projects)
          THEN [success |-> FALSE, error |-> "Project not found"]
          ELSE [success |-> TRUE,
                project |-> projects[project_id],
                phases |-> {rowid \in 1..Len(phases) : phases[rowid].project_id = project_id},
                agents |-> {rowid \in 1..Len(agents) : agents[rowid].project_id = project_id},
                pending_approvals |->
                    {rowid \in 1..Len(approval_gates) :
                        /\ approval_gates[rowid].project_id = project_id
                        /\ approval_gates[rowid].status = "pending"},
                features |-> {rowid \in 1..Len(features) : features[rowid].project_id = project_id}])
    /\ UNCHANGED <<store, clock, calls>>

\* AppForgeStateManager.list_projects
list_projects ==
    /\ last' = Returned("list_projects", <<>>,
                        [success |-> TRUE, projects |-> projects, count |-> Len(projects)])
    /\ UNCHANGED <<store, clock, calls>>

\* "total_agents = 25" of get_project_progress
total_agents == 25

\* round(x, 1) of the quotient num / den, in tenths (ties to even)
RoundTenths(num, den) ==
    LET q == (10 * num) \div den
        r == (10 * num) % den
    IN IF 2 * r > den \/ (2 * r = den /\ q % 2 = 1) THEN q + 1 ELSE q

\* AppForgeStateManager.get_project_progress: the dictionary it returns; the percentage
\* phase/6*100*0.4 + agents/25*100*0.3 + features/total*100*0.3 is held in tenths
get_project_progress_result(project_id) ==
    IF project_id \notin 1..Len(projects)
    THEN [success |-> FALSE, error |-> "Project not found"]
    ELSE
      LET current_phase == projects[project_id].current_phase
          completed_agents ==
              Cardinality({rowid \in 1..Len(agents) : /\ agents[rowid].project_id = project_id
                                                       /\ agents[rowid].status = "complete"})
          total_features ==
              Cardinality({rowid \in 1..Len(features) : features[rowid].project_id = project_id})
          completed_features ==
              Cardinality({rowid \in 1..Len(features) : /\ features[rowid].project_id = project_id
                                                         /\ features[rowid].status = "complete"})
          tf == IF total_features > 0 THEN total_features ELSE 1
          \* overall = (20*cp/3 + 6*ca/5 + 30*cf/tf), over the common denominator 15*tf
          num == 100 * current_phase * tf + 18 * completed_agents * tf + 450 * completed_features
      IN [success |-> TRUE, project_id |-> project_id, current_phase |-> current_phase,
          project_status |-> projects[project_id].status,
          progress_tenths |-> RoundTenths(num, 15 * tf),
          completed_agents |-> completed_agents, total_agents |-> total_agents,
          completed_features |-> completed_features, total_features |-> total_features]

get_project_progress(project_id) ==
    /\ last' = Returned("get_project_progress", <<project_id>>,
                        get_project_progress_result(project_id))
    /\ UNCHANGED <<store, clock, calls>>

\* ------------------------------------------------------------------ inputs
ProjectIds == {1, 2}
UnknownAgent == "unknown-agent"
\* agents the callers report on: no prerequisite, one, two, a late phase, and no graph entry
AgentInputs == {"input-agent", "requirements-analyst", "ui-ux-designer", "database-architect",
                "qa-engineer", UnknownAgent}
PhaseGateNames == {<<"Gate", "1">>, <<"Gate", "2">>, <<"Gate", "3">>,
                   <<"Gate", "4">>, <<"Gate", "5">>, <<"Gate", "6">>}
\* (project, agent) pairs of the completion calls: every input agent on project 1, the
\* entry agent on project 2
CompleteCalls == ({1} \X AgentInputs) \cup {<<2, "input-agent">>}
\* (project, gate) pairs of the gate calls: every phase gate on project 1, one on project 2
GateCalls == ({1} \X PhaseGateNames) \cup {<<2, <<"Gate", "1">> >>}
Login == [name |-> "login", priority |-> "HIGH"]
Export == [name |-> "export", priority |-> "LOW"]
Search == [name |-> "search", priority |-> NULL]
Report == [name |-> "report", priority |-> "HIGH"]
\* an item whose priority the features table refuses
Broken == [name |-> "broken", priority |-> "URGENT"]
\* an item that carries a retry limit of its own
Flaky == [name |-> "flaky", priority |-> "HIGH", max_retries |-> 5]

\* ------------------------------------------------------------------ specifications
\* Agent readiness and completion, with the approvals that advance the phase.
NextAgents ==
    \/ Len(audit_log) < MaxAgentAudit /\ create_project("P")
    \/ \E a \in {"requirements-analyst", UnknownAgent} : can_start_agent(1, a)
    \/ \E c \in CompleteCalls :
          Len(audit_log) < MaxAgentAudit /\ mark_agent_complete(c[1], c[2], "{}")
    \/ mark_agent_failed(1, "input-agent", "boom")
    \/ get_next_agents(1)
    \/ \E c \in {<<1, <<"Gate", "1">> >>, <<1, <<"Gate", "2">> >>, <<2, <<"Gate", "1">> >>} :
          Len(audit_log) < MaxAgentAudit /\ record_approval(c[1], c[2], TRUE, NULL)

SpecAgents == Init /\ [][NextAgents]_vars

\* Approval gates and phase advancement.
NextGates ==
    \/ Len(audit_log) < MaxGateAudit /\ create_project("P")
    \/ \E c \in GateCalls :
          Len(audit_log) < MaxGateAudit /\ request_approval(c[1], c[2], "must_approve", <<>>)
    \/ \E c \in GateCalls, ok \in BOOLEAN :
          Len(audit_log) < MaxGateAudit /\ record_approval(c[1], c[2], ok, NULL)
    \/ get_project_state(1)

SpecGates == Init /\ [][NextGates]_vars

\* The feature backlog: what get_next_feature selects.
NextBacklog ==
    \/ \E p \in ProjectIds, items \in {<<Export, Login>>, <<Report>>, <<Search>>, <<Flaky>>} :
          /\ Len(audit_log) < MaxBacklogAudit
          /\ Len(features) + Len(items) <= MaxFeatures
          /\ add_features(p, items)
    \/ \E p \in ProjectIds : get_next_feature(p)
    \/ \E f \in 1..MaxFeatures :
          Len(audit_log) < MaxBacklogAudit /\ mark_feature_complete(1, f)

SpecBacklog == Init /\ [][NextBacklog]_vars

\* The feature backlog: the retry counter.
NextRetry ==
    \/ \E p \in ProjectIds, items \in {<<Login>>} :
          /\ Len(audit_log) < MaxRetryAudit
          /\ Len(features) + Len(items) <= MaxFeatures
          /\ add_features(p, items)
    \/ \E p \in ProjectIds, f \in 1..2 :
          /\ Len(audit_log) < MaxRetryAudit
          /\ (f \in 1..Len(features) => features[f].retry_count < MaxRetryCount)
          /\ record_feature_retry(p, f)
    \/ Len(audit_log) < MaxRetryAudit /\ mark_feature_complete(1, 1)
    \/ get_next_feature(1)

SpecRetry == Init /\ [][NextRetry]_vars

\* Draining the backlog: the features are added first, then a caller repeats
\* get_next_feature and mark_feature_complete on the feature returned, and goes on
\* asking once a project's backlog is empty.
NextDrain ==
    \/ \E p \in ProjectIds, items \in {<<Export, Login>>, <<Report>>, <<Search>>} :
          /\ last.op \in {"init", "add_features"}
          /\ Len(features) + Len(items) <= MaxFeatures
          /\ add_features(p, items)
    \/ \E p \in ProjectIds :
          /\ last.op = "get_next_feature" => ~last.result.has_next
          /\ get_next_feature(p)
    \/ /\ last.op = "get_next_feature"
       /\ last.result.has_next
       /\ Len(audit_log) < 2 * MaxFeatures
       /\ mark_feature_complete(last.args[1], last.result.feature.id)

\* the caller's loop goes on while it has a step to take
SpecDrain == Init /\ [][NextDrain]_vars /\ WF_vars(NextDrain)

\* The artifact store, with the clock that stamps created_at.
NextArtifacts ==
    \/ Tick
    \/ \E p \in ProjectIds, content \in {"v1", "v2"}, metadata \in {"{}", "{k}"} :
          /\ Len(artifacts) < MaxSaved
          /\ save_artifact(p, "input-agent", "doc", "brief", content, metadata)
    \/ \E p \in ProjectIds : get_artifact(p, "brief")
    \/ \E p \in ProjectIds, t \in {NULL, "doc"} : list_artifacts(p, t)

SpecArtifacts == Init /\ [][NextArtifacts]_vars

\* Project creation by two processes on one database file, and a reader.
NextCreate ==
    \/ \E pr \in Processes, name \in {"P", "Q"} :
          Len(projects) < MaxProjects /\ create_project_call(pr, name)
    \/ \E pr \in Processes : Len(projects) < MaxProjects /\ create_project_resume(pr)
    \/ \E pr \in Processes : create_project_timeout(pr)
    \/ \E pr \in Processes : create_project_commit(pr)
    \/ list_projects

SpecCreate == Init /\ [][NextCreate]_vars

\* The life of a gate: requested, resolved, and resolved again, under names that do and
\* do not follow the 'Gate k' convention, with the clock that stamps resolved_at.
NextResolve ==
    \/ Tick
    \/ Len(audit_log) < MaxResolveAudit /\ create_project("P")
    \/ \E g \in {<<"Gate", "1">>, <<"Feature", "Gate">>} :
          Len(audit_log) < MaxResolveAudit /\ request_approval(1, g, "must_approve", <<>>)
    \/ \E g \in {<<"Gate", "1">>, <<"Feature", "Gate">>, <<"Gate", "9">>, <<"Gate", "0">>},
          ok \in BOOLEAN :
          /\ Len(audit_log) < MaxResolveAudit
          /\ record_approval(1, g, ok, IF ok THEN "go on" ELSE "redo")

SpecResolve == Init /\ [][NextResolve]_vars

\* Two processes on one store, each call taken in the steps another process can come
\* between. Timestamps play no part here: the clock stands still.
Payloads == {"{}", "{rev 2}"}
NextAtomic ==
    \/ \E pr \in Processes :
          /\ Len(audit_log) < MaxAtomicAudit
          /\ Len(projects) < MaxProjects
          /\ create_project_call(pr, "P")
    \/ \E pr \in Processes : create_project_resume(pr)
    \/ \E pr \in Processes : create_project_timeout(pr)
    \/ \E pr \in Processes : create_project_commit(pr)
    \/ \E pr \in Processes, a \in {"input-agent", UnknownAgent}, payload \in Payloads :
          /\ Len(audit_log) < MaxAtomicAudit
          /\ mark_agent_complete_call(pr, 1, a, payload)
    \/ \E pr \in Processes : mark_agent_complete_write(pr)
    \/ \E pr \in Processes : mark_agent_complete_resume(pr)
    \/ \E pr \in Processes : mark_agent_complete_timeout(pr)
    \/ \E pr \in Processes : mark_agent_complete_commit(pr)

SpecAtomic == Init /\ [][NextAtomic]_vars

\* One process at a time asks for the next agents, in the steps of its loop, while the
\* other callers' writes, each committed in one piece, land between those steps.
NextSnapshot ==
    \/ Len(audit_log) < MaxSnapshotAudit /\ create_project("P")
    \/ Len(audit_log) < MaxSnapshotAudit /\ mark_agent_complete(1, "input-agent", "{}")
    \/ Len(audit_log) < MaxSnapshotAudit /\ record_approval(1, <<"Gate", "1">>, TRUE, NULL)
    \/ \E pr \in Processes :
          /\ \A q \in Processes : calls[q].pc = "idle"
          /\ get_next_agents_call(pr, 1)
    \/ \E pr \in Processes : get_next_agents_check(pr)
    \/ \E pr \in Processes : get_next_agents_completed(pr)
    \/ \E pr \in Processes : get_next_agents_return(pr)

SpecSnapshot == Init /\ [][NextSnapshot]_vars

\* Driving the seeded workflow: a caller creates a project, asks for the next agents,
\* marks complete some agent of the ready list, and, whenever the ready list is empty
\* and current_phase < 6, requests and approves 'Gate current_phase+1'.
GateOfPhase(n) ==
    <<"Gate", CASE n = 1 -> "1" [] n = 2 -> "2" [] n = 3 -> "3"
                [] n = 4 -> "4" [] n = 5 -> "5" [] OTHER -> "6">>

NextDrive ==
    \/ last.op = "init" /\ create_project("P")
    \/ /\ last.op \in {"create_project", "mark_agent_complete", "record_approval"}
       /\ get_next_agents(1)
    \/ /\ last.op = "get_next_agents"
       /\ \E i \in 1..Len(last.result.ready_agents) :
             mark_agent_complete(1, last.result.ready_agents[i].name, "{}")
    \/ /\ last.op = "get_next_agents"
       /\ last.result.ready_agents = <<>>
       /\ CurrentPhaseOf(1) < 6
       /\ request_approval(1, GateOfPhase(CurrentPhaseOf(1) + 1), "must_approve", <<>>)
    \/ /\ last.op = "request_approval"
       /\ record_approval(1, last.args[2], TRUE, NULL)

\* the caller goes on while it has a step to take
SpecDrive == Init /\ [][NextDrive]_vars /\ WF_vars(NextDrive)

\* Two processes record retries of the features of one store at the same time; the
\* project and its backlog are created while no call is under way.
NextRetryRace ==
    \/ /\ Len(projects) < 1
       /\ \A pr \in Processes : calls[pr].pc = "idle"
       /\ create_project("P")
    \/ /\ Len(projects) = 1
       /\ Len(features) < 1
       /\ \A pr \in Processes : calls[pr].pc = "idle"
       /\ add_features(1, <<Login>>)
    \/ \E pr \in Processes, f \in 1..2 :
          /\ Len(audit_log) < MaxRaceAudit
          /\ record_feature_retry_call(pr, 1, f)
    \/ \E pr \in Processes : record_feature_retry_resume(pr)
    \/ \E pr \in Processes : record_feature_retry_timeout(pr)
    \/ \E pr \in Processes : record_feature_retry_commit(pr)

SpecRetryRace == Init /\ [][NextRetryRace]_vars

\* The progress report of a project whose phase, run records and backlog callers move.
NextProgress ==
    \/ Len(audit_log) < MaxProgressAudit /\ create_project("P")
    \/ \E g \in {<<"Gate", "1">>, <<"Gate", "6">>, <<"Gate", "9">>, <<"Gate", "-1">>} :
          Len(audit_log) < MaxProgressAudit /\ record_approval(1, g, TRUE, NULL)
    \/ Len(audit_log) < MaxProgressAudit /\ mark_agent_complete(1, "input-agent", "{}")
    \/ Len(audit_log) < MaxProgressAudit /\ add_features(1, <<Login>>)
    \/ Len(audit_log) < MaxProgressAudit /\ mark_feature_complete(1, 1)
    \/ get_project_progress(1)

SpecProgress == Init /\ [][NextProgress]_vars

\* Every operation of the engine, on small inputs.
Next ==
    \/ Len(audit_log) < MaxAudit /\ create_project("P")
    \/ get_project_state(1)
    \/ list_projects
    \/ get_project_progress(1)
    \/ can_start_agent(1, "input-agent")
    \/ \E a \in {"input-agent", UnknownAgent} :
          Len(audit_log) < MaxAudit /\ mark_agent_complete(1, a, "{}")
    \/ mark_agent_failed(1, "input-agent", "boom")
    \/ get_next_agents(1)
    \/ \E items \in {<<Login>>, <<Login, Broken>>} :
          Len(audit_log) < MaxAudit /\ add_features(1, items)
    \/ get_next_feature(1)
    \/ Len(audit_log) < MaxAudit /\ mark_feature_complete(1, 1)
    \/ Len(audit_log) < MaxAudit /\ record_feature_retry(1, 1)
    \/ \E g \in {<<"Gate", "1">>, <<"Feature", "Gate">>} :
          Len(audit_log) < MaxAudit /\ request_approval(1, g, "must_approve", <<>>)
    \/ request_approval(1, <<"Gate", "1">>, "sometimes", <<>>)
    \/ \E g \in {<<"Gate", "1">>, <<"Feature", "Gate">>}, ok \in BOOLEAN :
          Len(audit_log) < MaxAudit /\ record_approval(1, g, ok, NULL)
    \/ Len(artifacts) < MaxArtifacts /\ save_artifact(1, "input-agent", "doc", "brief", "text", "{}")
    \/ get_artifact(1, "brief")
    \/ list_artifacts(1, NULL)

Spec == Init /\ [][Next]_vars

\* ------------------------------------------------------------------ properties
\* (project, agent) has a run record with status complete
HasCompleteRecord(p, a) ==
    \E i \in 1..Len(agents) :
        agents[i].project_id = p /\ agents[i].agent_name = a /\ agents[i].status = "complete"

\* the number of run records of (p, a) with the given status
RecordCount(tbl, p, a, status) ==
    Cardinality({i \in 1..Len(tbl) :
        tbl[i].project_id = p /\ tbl[i].agent_name = a /\ tbl[i].status = status})

\* every prerequisite of the graph row A is complete in p, and p has reached A's phase
ReadyByDefinition(p, A) ==
    /\ \A j \in 1..Len(A.depends_on) : HasCompleteRecord(p, A.depends_on[j])
    /\ projects[p].current_phase >= A.phase_number

\* C1: for every existing project and every agent A of the dependency graph,
\* can_start_agent returns can_start = true if and only if every prerequisite of A has a
\* complete run record in the project and the project's current_phase is at least A's
\* phase; a can_start_agent call that has just returned reports exactly that.
C1_CanStartIff ==
    /\ \A p \in 1..Len(projects), d \in 1..Len(dependencies) :
          can_start_agent_result(p, dependencies[d].agent_name).can_start
              <=> ReadyByDefinition(p, dependencies[d])
    /\ (last.op = "can_start_agent" /\ last.result.success /\ last.args[1] \in 1..Len(projects))
          => (last.result.can_start
                <=> ReadyByDefinition(last.args[1], dependencies[DepRowId(last.args[2])]))

\* C1 witness: can_start_agent has answered true for an agent that has a prerequisite
\* and a phase above 0
C1_Witness ==
    /\ last.op = "can_start_agent"
    /\ last.args = <<1, "requirements-analyst">>
    /\ last.result.success
    /\ last.result.can_start
    /\ HasCompleteRecord(1, "input-agent")
    /\ Len(projects) >= 1
    /\ projects[1].current_phase = 1

\* C2: in every reachable state there is at most one run record with status complete
\* per (project, agent name).
C2_AtMostOneComplete ==
    \A p \in ProjectIds, a \in GraphAgents : RecordCount(agents, p, a, "complete") <= 1

\* C3: a mark_agent_failed call succeeds and leaves a new failed run record of the agent
\* as the newest row of the agents table and an agent_failed entry as the newest audit entry.
C3_FailedIsRecorded ==
    last.op = "mark_agent_failed" =>
        /\ last.result.success
        /\ Len(agents) > 0
        /\ agents[Len(agents)].status = "failed"
        /\ agents[Len(agents)].agent_name = last.args[2]
        /\ Len(audit_log) > 0
        /\ audit_log[Len(audit_log)].event_type = "agent_failed"

\* the name 'Gate k'
GateNamed(k) == <<"Gate", <<"1", "2", "3", "4", "5", "6">>[k]>>

\* the step is a record_approval(p, g, ok, ...) call
RecordApprovalStep(p, g, ok) ==
    /\ last'.op = "record_approval"
    /\ last'.args[1] = p
    /\ last'.args[2] = g
    /\ last'.args[3] = ok

\* the ids of the pending gates of (p, g)
PendingGates(p, g) ==
    {i \in 1..Len(approval_gates) :
        /\ approval_gates[i].project_id = p
        /\ approval_gates[i].gate_name = g
        /\ approval_gates[i].status = "pending"}

\* the status of phase row k of project p, in the table phs
PhaseStatus(phs, p, k) ==
    LET i == CHOOSE i \in 1..Len(phs) : phs[i].project_id = p /\ phs[i].phase_number = k
    IN phs[i].status

\* C4: for k in 1..6, record_approval(project, 'Gate k', approved=true) on a pending gate
\* of that name sets the gate to approved, the project's current_phase to k and phase row
\* k to in_progress; with approved=false it sets the gate to rejected and changes neither
\* current_phase nor any phase row.
C4_PhaseGateDecision ==
    [][\A p \in 1..Len(projects), k \in 1..6, ok \in BOOLEAN :
          (RecordApprovalStep(p, GateNamed(k), ok) /\ PendingGates(p, GateNamed(k)) # {}) =>
              /\ last'.result.success
              /\ \A i \in PendingGates(p, GateNamed(k)) :
                    approval_gates'[i].status = IF ok THEN "approved" ELSE "rejected"
              /\ IF ok
                 THEN /\ projects'[p].current_phase = k
                      /\ PhaseStatus(phases', p, k) = "in_progress"
                 ELSE /\ projects'[p].current_phase = projects[p].current_phase
                      /\ phases' = phases]_vars

\* C4 witness: a pending 'Gate 2' of an existing project has been approved and the project
\* is in phase 2 with phase row 2 in_progress
C4_Witness ==
    /\ last.op = "record_approval"
    /\ last.args[2] = GateNamed(2)
    /\ last.args[3] = TRUE
    /\ Len(projects) >= 1
    /\ projects[1].current_phase = 2
    /\ PhaseStatus(phases, 1, 2) = "in_progress"
    /\ \E i \in 1..Len(approval_gates) :
          /\ approval_gates[i].project_id = 1
          /\ approval_gates[i].gate_name = GateNamed(2)
          /\ approval_gates[i].status = "approved"

\* C5: record_approval for a (project, gate name) with no pending gate changes no gate
\* row, no current_phase and no phase row, also when approved=true and the name is 'Gate k'.
C5_NoPendingGateNoChange ==
    [][\A p \in ProjectIds, k \in 1..6, ok \in BOOLEAN :
          (RecordApprovalStep(p, GateNamed(k), ok) /\ PendingGates(p, GateNamed(k)) = {}) =>
              /\ approval_gates' = approval_gates
              /\ phases' = phases
              /\ \A q \in 1..Len(projects) :
                    projects'[q].current_phase = projects[q].current_phase]_vars

\* C6: a project's current_phase changes only in a record_approval step with
\* approved=true; a project row appears only in a create_project step, with
\* current_phase 0; no other operation changes any current_phase.
C6_OnlyApprovalMovesPhase ==
    [][/\ \A p \in 1..Len(projects) :
             projects'[p].current_phase # projects[p].current_phase
                 => last'.op = "record_approval" /\ last'.args[3] = TRUE
       /\ Len(projects') >= Len(projects)
       /\ \A p \in (Len(projects) + 1)..Len(projects') :
             last'.op = "create_project" /\ projects'[p].current_phase = 0]_vars

\* C6 witness: an approval has moved an existing project off phase 0
C6_Witness ==
    /\ last.op = "record_approval"
    /\ last.args[3] = TRUE
    /\ Len(projects) >= 1
    /\ projects[1].current_phase = 1

\* C7: for k in 1..6, phase row k of a project is in_progress only if the project has an
\* approval gate named 'Gate k' whose status is approved.
C7_InProgressNeedsApprovedGate ==
    \A p \in 1..Len(projects), k \in 1..6 :
        PhaseStatus(phases, p, k) = "in_progress" =>
            \E i \in 1..Len(approval_gates) :
                /\ approval_gates[i].project_id = p
                /\ approval_gates[i].gate_name = GateNamed(k)
                /\ approval_gates[i].status = "approved"

\* C8 as stated: in every reachable state each agent with a complete record has a
\* complete record for each of its prerequisites.
C8_CompleteImpliesPrerequisites ==
    \A p \in ProjectIds, d \in 1..Len(dependencies) :
        HasCompleteRecord(p, dependencies[d].agent_name) =>
            \A j \in 1..Len(dependencies[d].depends_on) :
                HasCompleteRecord(p, dependencies[d].depends_on[j])

\* C8 amended: mark_agent_complete does not look at readiness: called for any agent of
\* the dependency graph it succeeds and the agent has one more complete record than
\* before, whether can_start_agent is true or false at the time of the call.
C8_CompletionIgnoresReadiness ==
    [][\A p \in ProjectIds, a \in GraphAgents :
          (last'.op = "mark_agent_complete" /\ last'.args[1] = p /\ last'.args[2] = a) =>
              /\ last'.result.success
              /\ RecordCount(agents', p, a, "complete") = RecordCount(agents, p, a, "complete") + 1]_vars

\* C8 witness: mark_agent_complete has recorded an agent as complete in an existing
\* project that is still in phase 0 and has no complete record of the agent's prerequisite
C8_Witness ==
    /\ last.op = "mark_agent_complete"
    /\ last.args[1] = 1
    /\ last.args[2] = "requirements-analyst"
    /\ last.result.success
    /\ Len(projects) >= 1
    /\ projects[1].current_phase = 0
    /\ HasCompleteRecord(1, "requirements-analyst")
    /\ ~HasCompleteRecord(1, "input-agent")

\* the priority ranks the backlog is served by
RankOf(priority) == [HIGH |-> 1, MEDIUM |-> 2, LOW |-> 3][priority]

\* the ids of the pending features of project p
PendingFeatures(p) ==
    {i \in 1..Len(features) : features[i].project_id = p /\ features[i].status = "pending"}

\* r is a right answer of get_next_feature for project p
RightNextFeature(p, r) ==
    /\ r.success
    /\ r.has_next <=> PendingFeatures(p) # {}
    /\ r.has_next =>
          /\ r.feature.id \in PendingFeatures(p)
          /\ r.feature.row = features[r.feature.id]
          /\ \A j \in PendingFeatures(p) \ {r.feature.id} :
                \/ RankOf(features[r.feature.id].priority) < RankOf(features[j].priority)
                \/ /\ RankOf(features[r.feature.id].priority) = RankOf(features[j].priority)
                   /\ r.feature.id < j

\* C9: get_next_feature returns, among the project's pending features, the one with the
\* smallest priority rank (HIGH=1 < MEDIUM=2 < LOW=3) and, among equal priority, the
\* smallest insertion id; it returns has_next=false exactly when the project has no
\* pending feature.
C9_NextFeatureByPriorityThenId ==
    /\ \A p \in ProjectIds : RightNextFeature(p, get_next_feature_result(p))
    /\ last.op = "get_next_feature" => RightNextFeature(last.args[1], last.result)

\* C9 witness: get_next_feature has returned a HIGH feature inserted after a pending
\* feature of lower priority of the same project
C9_Witness ==
    /\ last.op = "get_next_feature"
    /\ last.result.has_next
    /\ last.result.feature.row.priority = "HIGH"
    /\ \E j \in PendingFeatures(last.args[1]) :
          j < last.result.feature.id /\ features[j].priority = "LOW"

\* C10: each successful record_feature_retry call raises the feature's retry_count by
\* exactly 1, returns that new count, returns retries_left = max_retries - retry_count on
\* the new count, and returns max_retries_reached = true exactly when the new
\* retry_count >= max_retries.
C10_RetryCountsByOne ==
    [][\A f \in 1..Len(features) :
          (last'.op = "record_feature_retry" /\ last'.args[2] = f /\ last'.result.success) =>
              /\ features'[f].retry_count = features[f].retry_count + 1
              /\ last'.result.retry_count = features'[f].retry_count
              /\ last'.result.retries_left = features'[f].max_retries - features'[f].retry_count
              /\ last'.result.max_retries_reached
                    <=> features'[f].retry_count >= features'[f].max_retries]_vars

\* C10 witness: a retry has just brought retry_count up to max_retries
C10_Witness ==
    /\ last.op = "record_feature_retry"
    /\ last.result.success
    /\ last.result.max_retries_reached
    /\ last.result.retries_left = 0
    /\ features[last.args[2]].retry_count = features[last.args[2]].max_retries

\* C11: along every sequence of operations a feature's retry_count never decreases and
\* changes only in a record_feature_retry step for that feature; a feature row appears
\* with retry_count 0; add_features, get_next_feature and mark_feature_complete leave
\* every retry_count as it was.
C11_RetryCountOnlyByRetry ==
    [][/\ Len(features') >= Len(features)
       /\ \A f \in 1..Len(features) :
             /\ features'[f].retry_count >= features[f].retry_count
             /\ features'[f].retry_count # features[f].retry_count
                   => last'.op = "record_feature_retry" /\ last'.args[2] = f
       /\ \A f \in (Len(features) + 1)..Len(features') : features'[f].retry_count = 0
       /\ last'.op \in {"add_features", "get_next_feature", "mark_feature_complete"}
             => \A f \in 1..Len(features) :
                   features'[f].retry_count = features[f].retry_count]_vars

\* C11 witness: a feature retried twice has been marked complete and keeps its count,
\* next to a second feature that was never retried
C11_Witness ==
    /\ last.op = "mark_feature_complete"
    /\ Len(features) >= 2
    /\ features[1].status = "complete"
    /\ features[1].retry_count = 2
    /\ features[2].retry_count = 0

\* the audit entries of project p, oldest first: what has been done to the project
ProjectEvents(p) == SelectSeq(audit_log, LAMBDA e : e.project_id = p)

\* project p was created and nothing else has been done to it
FreshProject(p) ==
    /\ p \in 1..Len(projects)
    /\ Len(ProjectEvents(p)) = 1
    /\ ProjectEvents(p)[1].event_type = "project_created"

\* project p was created and then 'input-agent' was marked complete, nothing else
InputAgentDone(p) ==
    /\ p \in 1..Len(projects)
    /\ Len(ProjectEvents(p)) = 2
    /\ ProjectEvents(p)[1].event_type = "project_created"
    /\ ProjectEvents(p)[2].event_type = "agent_complete"
    /\ ProjectEvents(p)[2].agent_name = "input-agent"

\* project p was created, 'input-agent' was marked complete and then 'Gate 1' was approved
GateOneApproved(p) ==
    /\ p \in 1..Len(projects)
    /\ Len(ProjectEvents(p)) = 3
    /\ ProjectEvents(p)[1].event_type = "project_created"
    /\ ProjectEvents(p)[2].event_type = "agent_complete"
    /\ ProjectEvents(p)[2].agent_name = "input-agent"
    /\ ProjectEvents(p)[3].event_type = "approval_recorded"
    /\ ProjectEvents(p)[3].details.gate_name = <<"Gate", "1">>
    /\ ProjectEvents(p)[3].details.approved

\* can_start_agent(p, 'requirements-analyst') answers can_start = b in this state, and
\* so did the call that has just returned, if that is the last operation
AnalystCanStart(p, b) ==
    /\ can_start_agent_result(p, "requirements-analyst").can_start = b
    /\ (last.op = "can_start_agent" /\ last.args = <<p, "requirements-analyst">>)
          => last.result.can_start = b

\* C12: on a freshly created project can_start_agent('requirements-analyst') is false;
\* it is still false after mark_agent_complete('input-agent', {}) while current_phase is
\* 0; and it is true right after a following record_approval('Gate 1', approved=true).
C12_ScenarioOrdering ==
    \A p \in 1..Len(projects) :
        /\ FreshProject(p) => AnalystCanStart(p, FALSE)
        /\ InputAgentDone(p) => projects[p].current_phase = 0 /\ AnalystCanStart(p, FALSE)
        /\ GateOneApproved(p) => projects[p].current_phase = 1 /\ AnalystCanStart(p, TRUE)

\* C12 witness: the scenario has run to its end and can_start_agent has answered true
C12_Witness ==
    /\ GateOneApproved(1)
    /\ last.op = "can_start_agent"
    /\ last.args = <<1, "requirements-analyst">>
    /\ last.result.can_start

\* the ids of the features of project p marked complete so far, in the order of the calls
Served(p) ==
    LET done == SelectSeq(audit_log,
                    LAMBDA e : e.event_type = "feature_complete" /\ e.project_id = p)
    IN [i \in 1..Len(done) |-> done[i].details.feature_id]

\* feature i is served before feature j: higher priority, or the same and inserted first
ServedBefore(i, j) ==
    \/ RankOf(features[i].priority) < RankOf(features[j].priority)
    \/ RankOf(features[i].priority) = RankOf(features[j].priority) /\ i < j

\* what the drain of project p has done so far is right: each feature served once, in
\* priority-then-insertion order; a feature returned is not one served before; and once
\* get_next_feature has answered has_next = false every feature of p has been served
DrainInOrder(p) ==
    /\ \A i, j \in 1..Len(Served(p)) :
          i < j => Served(p)[i] # Served(p)[j] /\ ServedBefore(Served(p)[i], Served(p)[j])
    /\ \A i \in 1..Len(Served(p)) : features[Served(p)[i]].status = "complete"
    /\ (last.op = "get_next_feature" /\ last.args[1] = p /\ last.result.has_next)
          => \A i \in 1..Len(Served(p)) : Served(p)[i] # last.result.feature.id
    /\ (last.op = "get_next_feature" /\ last.args[1] = p /\ ~last.result.has_next)
          => {Served(p)[i] : i \in 1..Len(Served(p))}
                 = {f \in 1..Len(features) : features[f].project_id = p}

\* the backlog of every project is empty and get_next_feature has said so
Drained ==
    /\ \A p \in ProjectIds : PendingFeatures(p) = {}
    /\ last.op = "get_next_feature"
    /\ ~last.result.has_next

\* C13: with a finite backlog and no further add_features calls, repeating
\* get_next_feature and mark_feature_complete on the feature returned serves every
\* pending feature exactly once in priority-then-insertion order, a feature marked
\* complete is never returned again, and the loop ends: from some point on every
\* backlog is empty and get_next_feature returns has_next = false.
C13_DrainTerminates ==
    /\ [](\A p \in ProjectIds : DrainInOrder(p))
    /\ <>[]Drained

\* C13 witness: a backlog in which a LOW feature was inserted before a HIGH one has been
\* drained, the HIGH one first, and get_next_feature has returned has_next = false
C13_Witness ==
    /\ last.op = "get_next_feature"
    /\ last.args[1] = 1
    /\ ~last.result.has_next
    /\ Len(Served(1)) = 2
    /\ features[Served(1)[1]].priority = "HIGH"
    /\ features[Served(1)[2]].priority = "LOW"
    /\ Served(1)[2] < Served(1)[1]

\* the id of the artifact of (p, name) saved last: ids grow with every save
LastSaved(p, name) ==
    MaxOf({i \in 1..Len(artifacts) :
              artifacts[i].project_id = p /\ artifacts[i].artifact_name = name})

\* C14: get_artifact(project, name) returns the content and metadata of the artifact of
\* that name saved most recently, also when older artifacts of the name exist and also
\* when the saves fall in the same second of the stored creation timestamp.
C14_GetReturnsLastSaved ==
    (last.op = "get_artifact" /\ last.result.success) =>
        /\ last.result.artifact.id = LastSaved(last.args[1], last.args[2])
        /\ last.result.artifact.row.content
              = artifacts[LastSaved(last.args[1], last.args[2])].content
        /\ last.result.artifact.row.metadata
              = artifacts[LastSaved(last.args[1], last.args[2])].metadata

\* C15: in a get_next_agents result an agent that holds a complete record in the project
\* is in neither ready_agents nor blocked_agents, whatever the state of its
\* prerequisites and whatever the project's current_phase.
C15_CompleteInNeitherList ==
    last.op = "get_next_agents" =>
        /\ \A i \in 1..Len(last.result.ready_agents) :
              ~HasCompleteRecord(last.args[1], last.result.ready_agents[i].name)
        /\ \A i \in 1..Len(last.result.blocked_agents) :
              ~HasCompleteRecord(last.args[1], last.result.blocked_agents[i].name)

\* the phase the dependency graph gives agent a
GraphPhase(a) == dependencies[DepRowId(a)].phase_number

\* agent a comes before agent b in (phase, name) order
AgentBefore(a, b) ==
    \/ GraphPhase(a) < GraphPhase(b)
    \/ GraphPhase(a) = GraphPhase(b) /\ NameRank(a) < NameRank(b)

\* the list of entries is in strict (phase, name) order and carries each agent's phase
InAgentOrder(list) ==
    /\ \A i, j \in 1..Len(list) : i < j => AgentBefore(list[i].name, list[j].name)
    /\ \A i \in 1..Len(list) :
          list[i].name \in GraphAgents /\ list[i].phase = GraphPhase(list[i].name)

\* the names of the entries of a list
NamesOf(list) == {list[i].name : i \in 1..Len(list)}

\* r is the right answer of get_next_agents for project p in this state
RightNextAgents(p, r) ==
    LET passes == {a \in GraphAgents : can_start_agent_result(p, a).can_start}
        fails == GraphAgents \ passes
    IN  /\ r.success
        /\ InAgentOrder(r.ready_agents)
        /\ NamesOf(r.ready_agents) = {a \in passes : ~HasCompleteRecord(p, a)}
        /\ InAgentOrder(r.blocked_agents)
        /\ NamesOf(r.blocked_agents) \subseteq fails
        /\ Len(r.blocked_agents) = IF Cardinality(fails) < 5 THEN Cardinality(fails) ELSE 5
        /\ \A a \in fails \ NamesOf(r.blocked_agents), b \in NamesOf(r.blocked_agents) :
              AgentBefore(b, a)
        /\ \A i \in 1..Len(r.blocked_agents) :
              r.blocked_agents[i].missing
                  = can_start_agent_result(p, r.blocked_agents[i].name).missing_dependencies
        /\ NamesOf(r.ready_agents) \cap NamesOf(r.blocked_agents) = {}

\* C16: get_next_agents is a function of the store: ready_agents is exactly the list, in
\* (phase, name) order, of the agents whose readiness check passes and that have no
\* complete record; blocked_agents is the first five, in the same order, of the agents
\* whose readiness check fails; the two lists are disjoint.
C16_NextAgentsLists ==
    last.op = "get_next_agents" =>
        /\ RightNextAgents(last.args[1], last.result)
        /\ last.result = get_next_agents_result(last.args[1])

\* C16 witness: get_next_agents has returned two ready agents of phase 1 in name order
\* and five blocked agents, after the entry agent was completed and 'Gate 1' approved
C16_Witness ==
    /\ last.op = "get_next_agents"
    /\ GateOneApproved(1)
    /\ Len(last.result.ready_agents) = 2
    /\ last.result.ready_agents[1].name = "requirements-analyst"
    /\ last.result.ready_agents[2].name = "ui-ux-designer"
    /\ Len(last.result.blocked_agents) = 5
    /\ last.result.blocked_agents[1].name = "api-designer"

\* C17: whenever an operation fails (it raises or returns success = false) the store
\* after the call equals the store before it: no row the failed operation wrote, its
\* audit entry and a gate update made before the failure included, can be seen.
C17_FailureChangesNothing ==
    [][~last'.result.success => store' = store]_vars

\* C17 witness: record_approval has raised on the name 'Feature Gate' after its UPDATE
\* of the pending gate of that name, and the gate is still pending
C17_Witness ==
    /\ last.op = "record_approval"
    /\ last.args[2] = <<"Feature", "Gate">>
    /\ ~last.result.success
    /\ PendingGates(1, <<"Feature", "Gate">>) # {}

\* C18: can_start_agent and mark_agent_complete called with an agent name that the
\* dependency graph does not have return a failure that names the agent and write
\* nothing: no run record, no audit entry, no change of the project's updated_at.
C18_UnknownAgentWritesNothing ==
    [][(last'.op \in {"can_start_agent", "mark_agent_complete"}
          /\ last'.args[2] \notin GraphAgents) =>
              /\ ~last'.result.success
              /\ last'.result.error = <<"Unknown agent: ", last'.args[2]>>
              /\ agents' = agents
              /\ audit_log' = audit_log
              /\ projects' = projects
              /\ store' = store]_vars

\* C18 witness: mark_agent_complete has refused an unknown agent on an existing project
\* that already has a run record
C18_Witness ==
    /\ last.op = "mark_agent_complete"
    /\ last.args = <<1, UnknownAgent, "{}">>
    /\ ~last.result.success
    /\ Len(projects) >= 1
    /\ Len(agents) >= 1

\* no two rows of the projects table have the same name
NamesUnique ==
    \A i, j \in 1..Len(projects) : i # j => projects[i].name # projects[j].name

\* C19: create_project with a name that an existing project has returns a failure and
\* adds no project row, no phase row and no audit entry; the project names are unique
\* in every reachable state, also when two callers create the same name concurrently.
C19_DuplicateNameRefused ==
    /\ []NamesUnique
    /\ [][\A pr \in Processes :
              (calls'[pr] # calls[pr] /\ calls'[pr].pc = "idle"
                 /\ \E i \in 1..Len(projects) : projects[i].name = calls'[pr].args[1]) =>
                  /\ ~calls'[pr].result.success
                  /\ last' = Returned("create_project", calls'[pr].args, calls'[pr].result)
                  /\ projects' = projects
                  /\ phases' = phases
                  /\ audit_log' = audit_log]_vars

\* C19 witness: two processes were in create_project('P') at the same time; the one that
\* wrote first has committed, the one that waited for the lock was refused, and there
\* is one project with its seven phases and its audit entry
C19_Witness ==
    /\ calls["A"].pc = "idle" /\ calls["B"].pc = "idle"
    /\ \E pr, qr \in Processes :
          /\ calls[pr] = CallReturned(pr, "create_project", <<"P">>, FALSE,
                                      [success |-> TRUE, project_id |-> 1, name |-> "P"])
          /\ calls[qr] = CallReturned(qr, "create_project", <<"P">>, TRUE,
                                      [success |-> FALSE, error |-> "already exists"])
    /\ Len(projects) = 1
    /\ Len(phases) = 7
    /\ Len(audit_log) = 1

\* the project-owned tables
OwnedTables == <<projects, phases, agents, features, approval_gates, artifacts>>

\* C20: every operation call that commits a change to a project-owned table (projects,
\* phases, agents, features, approval_gates, artifacts) appends exactly one audit entry
\* for that project in the same transaction: no committed change without its entry.
C20_ChangeHasAuditEntry ==
    [][OwnedTables' # OwnedTables =>
          /\ Len(audit_log') = Len(audit_log) + 1
          /\ SubSeq(audit_log', 1, Len(audit_log)) = audit_log
          /\ audit_log'[Len(audit_log')].project_id
                = IF last'.op = "create_project" THEN Len(projects') ELSE last'.args[1]]_vars

\* C21: a gate is resolved once: once its status is approved or rejected no later
\* operation, a record_approval of the same name with the opposite decision included,
\* changes its status, feedback or resolution timestamp.
C21_ResolvedOnce ==
    [][/\ Len(approval_gates') >= Len(approval_gates)
       /\ \A i \in 1..Len(approval_gates) :
             approval_gates[i].status \in {"approved", "rejected"} =>
                 /\ approval_gates'[i].status = approval_gates[i].status
                 /\ approval_gates'[i].user_feedback = approval_gates[i].user_feedback
                 /\ approval_gates'[i].resolved_at = approval_gates[i].resolved_at]_vars

\* C21 witness: a gate rejected at time 0 has met, at time 1, a record_approval of its
\* name with the opposite decision and is as it was
C21_Witness ==
    /\ last.op = "record_approval"
    /\ last.args = <<1, <<"Gate", "1">>, TRUE, "go on">>
    /\ last.result.success
    /\ clock = 1
    /\ Len(approval_gates) >= 1
    /\ approval_gates[1].gate_name = <<"Gate", "1">>
    /\ approval_gates[1].status = "rejected"
    /\ approval_gates[1].user_feedback = "redo"
    /\ approval_gates[1].resolved_at = 0
    /\ audit_log[Len(audit_log)].timestamp = 1

\* C22: when several pending gates of one project share a gate name, one
\* record_approval call resolves only the most recently requested of them; the older
\* pending gates of that name remain pending.
C22_ResolvesNewestPendingOnly ==
    [][\A g \in {<<"Gate", "1">>, <<"Feature", "Gate">>}, ok \in BOOLEAN :
          (RecordApprovalStep(1, g, ok) /\ Cardinality(PendingGates(1, g)) > 1) =>
              \A i \in PendingGates(1, g) :
                  approval_gates'[i].status =
                      IF i = MaxOf(PendingGates(1, g))
                      THEN (IF ok THEN "approved" ELSE "rejected")
                      ELSE "pending"]_vars

\* C23: record_approval(approved=true) on a pending gate whose name does not follow the
\* phase-gate convention with an integer token ('Feature Gate') succeeds: the gate
\* becomes approved, current_phase and all phase rows are unchanged, and one
\* approval_recorded audit entry is appended.
C23_FeatureGateApproved ==
    [][(RecordApprovalStep(1, <<"Feature", "Gate">>, TRUE)
          /\ PendingGates(1, <<"Feature", "Gate">>) # {}) =>
              /\ last'.result.success
              /\ \A i \in PendingGates(1, <<"Feature", "Gate">>) :
                    approval_gates'[i].status = "approved"
              /\ projects' = projects
              /\ phases' = phases
              /\ Len(audit_log') = Len(audit_log) + 1
              /\ audit_log'[Len(audit_log')].event_type = "approval_recorded"]_vars

\* C26: ownership: in every reachable state every agent run record, feature, approval
\* gate, artifact and audit entry carries a project_id that identifies an existing
\* project (an operation called with a project id that identifies no project creates
\* no row).
C26_RowsOwned ==
    /\ \A i \in 1..Len(agents) : agents[i].project_id \in 1..Len(projects)
    /\ \A i \in 1..Len(features) : features[i].project_id \in 1..Len(projects)
    /\ \A i \in 1..Len(approval_gates) : approval_gates[i].project_id \in 1..Len(projects)
    /\ \A i \in 1..Len(artifacts) : artifacts[i].project_id \in 1..Len(projects)
    /\ \A i \in 1..Len(audit_log) : audit_log[i].project_id \in 1..Len(projects)

\* C27: a successful add_features appends one row per supplied item, pending with
\* retry_count 0 and with max_retries equal to the item's own value when the item
\* supplies one and 3 otherwise, and appends exactly one features_added audit entry.
C27_FeatureRowsAsSupplied ==
    [][(last'.op = "add_features" /\ last'.result.success) =>
          LET items == last'.args[2] IN
          /\ Len(features') = Len(features) + Len(items)
          /\ \A i \in 1..Len(items) :
                LET row == features'[Len(features) + i] IN
                /\ row.feature_name = items[i].name
                /\ row.status = "pending"
                /\ row.retry_count = 0
                /\ row.max_retries = IF "max_retries" \in DOMAIN items[i]
                                      THEN items[i].max_retries
                                      ELSE 3
          /\ Len(audit_log') = Len(audit_log) + 1
          /\ audit_log'[Len(audit_log')].event_type = "features_added"]_vars

\* C28: in every reachable state every project's current_phase is an integer in 0..6,
\* whatever gate names record_approval is given ('Gate 9' and 'Gate 0' included).
C28_PhaseInRange ==
    \A p \in 1..Len(projects) : projects[p].current_phase \in 0..6

\* process pr commits its call in this step
Commits(pr) == calls[pr].pc = "writing" /\ calls'[pr].pc = "idle"

\* the agents, projects, phases and audit_log tables that the call op(args), run in one
\* piece with nothing between its steps, makes of the present store
SerialStore(op, args) ==
    IF op = "mark_agent_complete"
    THEN LET phase_number == dependencies[DepRowId(args[2])].phase_number IN
         <<CompleteAgentRows(agents, ExistingRecord(agents, args[1], args[2]),
                             args[1], args[2], phase_number, args[3]),
           TouchProject(projects, args[1]),
           phases,
           CompletionLogged(audit_log, args[1], args[2], phase_number, args[3])>>
    ELSE IF \E i \in 1..Len(projects) : projects[i].name = args[1]
    THEN <<agents, projects, phases, audit_log>>
    ELSE <<agents,
           Append(projects, ProjectRow(args[1])),
           phases \o PhaseRows(Len(projects) + 1),
           log_event(audit_log, Len(projects) + 1, "project_created",
                     [name |-> args[1]], NULL, NullInt)>>

PrerequisitesOf(a) ==
    {dependencies[DepRowId(a)].depends_on[j] :
        j \in 1..Len(dependencies[DepRowId(a)].depends_on)}

\* C30: get_next_agents answers from one consistent snapshot of the store even while
\* another process writes; in particular, as an agent is ready only when all its
\* prerequisites are complete and a complete agent is not ready, the ready list it
\* returns never contains both an agent and one of its own prerequisites.
C30_ReadyFromOneSnapshot ==
    \A pr \in Processes :
        (calls[pr].pc = "idle" /\ "op" \in DOMAIN calls[pr]
              /\ calls[pr].op = "get_next_agents") =>
            LET ready == NamesOf(calls[pr].result.ready_agents) IN
            \A a \in ready : PrerequisitesOf(a) \cap ready = {}

\* C31: mark_feature_complete and record_feature_retry called with a feature id that
\* no row of the features table has return a failure, change no row and append no
\* audit entry.
C31_MissingFeatureRefused ==
    [][(last'.op \in {"mark_feature_complete", "record_feature_retry"}
          /\ last'.args[2] \notin 1..Len(features)) =>
              /\ ~last'.result.success
              /\ features' = features
              /\ audit_log' = audit_log
              /\ store' = store]_vars

\* C32: a project passes through its phases in order: no step decreases a project's
\* current_phase, so approving 'Gate j' when current_phase is already k > j does not
\* move the project back to phase j.
C32_PhaseNeverDecreases ==
    [][\A p \in 1..Len(projects) :
          projects'[p].current_phase >= projects[p].current_phase]_vars

\* the indices of the phase rows of project p with phase number n
PhaseRowsOf(phs, p, n) ==
    {i \in 1..Len(phs) : phs[i].project_id = p /\ phs[i].phase_number = n}

\* every project has exactly one phase row for each phase number 0..6, and the phases
\* table has no other row
OnePhaseRowEach ==
    /\ \A p \in 1..Len(projects), n \in 0..6 : Cardinality(PhaseRowsOf(phases, p, n)) = 1
    /\ \A i \in 1..Len(phases) :
          phases[i].project_id \in 1..Len(projects) /\ phases[i].phase_number \in 0..6

\* C33: a successful create_project yields a project with current_phase 0 and status
\* active, exactly seven phase rows numbered 0..6 with phase 0 in_progress and phases
\* 1..6 pending, and one project_created audit entry; afterwards every operation keeps
\* exactly one phase row per (project, phase number 0..6).
C33_CreateSeedsPhases ==
    [][/\ (last'.op = "create_project" /\ last'.result.success /\ projects' # projects) =>
             LET p == last'.result.project_id IN
             /\ Len(projects') = Len(projects) + 1
             /\ p = Len(projects')
             /\ SubSeq(projects', 1, Len(projects)) = projects
             /\ projects'[p].name = last'.args[1]
             /\ projects'[p].current_phase = 0
             /\ projects'[p].status = "active"
             /\ Len(phases') = Len(phases) + 7
             /\ SubSeq(phases', 1, Len(phases)) = phases
             /\ \A n \in 0..6 :
                   \E i \in PhaseRowsOf(phases', p, n) :
                       phases'[i].status = IF n = 0 THEN "in_progress" ELSE "pending"
             /\ Len(audit_log') = Len(audit_log) + 1
             /\ SubSeq(audit_log', 1, Len(audit_log)) = audit_log
             /\ audit_log'[Len(audit_log')].event_type = "project_created"
             /\ audit_log'[Len(audit_log')].project_id = p
       /\ OnePhaseRowEach']_vars

\* C33 witness: after create_project, an approval of 'Gate 1' has started phase 1 of the
\* project, which still has its seven phase rows
C33_Witness ==
    /\ last.op = "record_approval"
    /\ last.args[2] = <<"Gate", "1">>
    /\ last.result.success
    /\ Len(projects) = 1
    /\ projects[1].current_phase = 1
    /\ audit_log[1].event_type = "project_created"
    /\ Len(phases) = 7
    /\ \A n \in 0..6 : phases[n + 1].phase_number = n /\ phases[n + 1].project_id = 1
    /\ phases[2].status = "in_progress"
    /\ phases[3].status = "pending"

\* C34: project isolation: an operation invoked for project P changes only rows owned
\* by P; mark_feature_complete(P, f) and record_feature_retry(P, f) do not change the
\* status or retry_count of a feature f that belongs to another project, and write no
\* audit entry that attributes that feature to P.
C34_ProjectIsolation ==
    [][LET P == last'.args[1] IN
       /\ \A i \in 1..Len(features) :
             features[i].project_id # P => features'[i] = features[i]
       /\ \A k \in (Len(audit_log) + 1)..Len(audit_log') :
             (audit_log'[k].project_id = P /\ "feature_id" \in DOMAIN audit_log'[k].details
                  /\ audit_log'[k].details.feature_id \in 1..Len(features)) =>
                 features[audit_log'[k].details.feature_id].project_id = P]_vars

\* the workflow of project 1 is over: every seeded agent has a complete record, the
\* project is in phase 6, and get_next_agents has returned two empty lists
WorkflowDone ==
    /\ \A a \in GraphAgents : HasCompleteRecord(1, a)
    /\ CurrentPhaseOf(1) = 6
    /\ last.op = "get_next_agents"
    /\ last.result.ready_agents = <<>>
    /\ last.result.blocked_agents = <<>>

\* the caller is left without a step only when the workflow is over
NeverStuck ==
    (/\ last.op = "get_next_agents"
     /\ last.result.ready_agents = <<>>
     /\ CurrentPhaseOf(1) >= 6) => WorkflowDone

\* C35: the seeded workflow can always be driven to the end: from a freshly created
\* project, a caller that repeatedly marks complete some agent of get_next_agents' ready
\* list and, whenever the ready list is empty and current_phase < 6, requests and approves
\* 'Gate current_phase+1', eventually reaches a state where all 17 seeded agents have a
\* complete record, current_phase is 6 and get_next_agents returns empty ready and
\* blocked lists; no earlier state is stuck.
C35_DrivenToTheEnd ==
    /\ []NeverStuck
    /\ <>[]WorkflowDone

\* C35 witness: the workflow is over after 17 completions, one per seeded agent, and six
\* approved gates
C35_Witness ==
    /\ WorkflowDone
    /\ Len(agents) = 17
    /\ Cardinality(GraphAgents) = 17
    /\ Len(approval_gates) = 6
    /\ \A i \in 1..6 : approval_gates[i].status = "approved"
    /\ agents[17].agent_name = "devops-engineer-appstore"

\* a call of record_feature_retry that process pr has returned from with success
RetryReturned(pr) ==
    /\ calls[pr].pc = "idle"
    /\ "result" \in DOMAIN calls[pr]
    /\ calls[pr].op = "record_feature_retry"
    /\ calls[pr].result.success

\* the feature_retry entries of the audit log that are about feature f
RetriesLogged(f) ==
    Cardinality({i \in 1..Len(audit_log) :
                    /\ audit_log[i].event_type = "feature_retry"
                    /\ audit_log[i].details.feature_id = f})

\* the record_feature_retry call of process pr commits with a result that reports success
RetryCommits(pr) ==
    /\ Commits(pr)
    /\ calls[pr].op = "record_feature_retry"
    /\ calls[pr].result.success

C37_ProgressInRange ==
    (last.op = "get_project_progress" /\ last.result.success) =>
        LET r == last.result
        IN  /\ r.progress_tenths >= 0
            /\ r.progress_tenths <= 1000
            /\ r.current_phase >= 0
            /\ r.current_phase <= 6
            /\ r.completed_agents >= 0
            /\ r.completed_agents <= r.total_agents
            /\ r.completed_features >= 0
            /\ r.completed_features <= r.total_features

====
